---------------------------- MODULE Spec2Model ----------------------------
(***************************************************************************)
(* Vanity address generator: the browser application (main.js) with its    *)
(* ParallelProcessingManager and the web workers (worker.js).              *)
(*                                                                         *)
(* One TLA+ step is one task of the page's event loop: an event handler,   *)
(* a timer callback or a worker message, run together with the promise     *)
(* continuations (microtasks) it releases, up to the next await of every   *)
(* asynchronous function involved.  The page stays loaded in Spec.         *)
(***************************************************************************)
EXTENDS Integers, Sequences, FiniteSets, TLC

(***************************************************************************)
(* Bounds of the model.                                                    *)
(***************************************************************************)
MaxSessions == 2      \* searches started during the life of the page
MaxMessages == 4      \* requests sent to workers during the life of the page
MaxBatches  == 3      \* batches run on the main thread during the life of the page
MaxTraps    == 1      \* searches that meet a WASM call that throws at their start
MaxStrLen   == 3      \* longest string given to the validators
MaxCores    == 16     \* largest hardware concurrency reported
MaxProbes   == 1      \* requests of other types posted to the workers
MaxWord     == 7      \* largest number that 32 bytes hold, scaled down
CurveOrder  == 5      \* the group order n, scaled down (n <= MaxWord)
LargeBatch  == 3      \* batch size recommended for short targets
SmallBatch  == 2      \* batch size recommended for long targets

(***************************************************************************)
(* Program constants.                                                      *)
(***************************************************************************)
DefaultConcurrency == 4       \* navigator.hardwareConcurrency || 4
ReservedCores      == 2       \* ... - 2
DefaultSuggestions == 5       \* generateSuggestions(userInput, maxSuggestions = 5)
PracticalLength    == 10      \* target.length > 10
updateInterval     == 100     \* candidates per pass of the fallback loop
ShortTarget        == 3       \* longest target that still gets LargeBatch

HardwareConcurrencies == {0, 1}          \* 0: the browser does not report it
Positions == {"prefix", "suffix", "anywhere"}

(***************************************************************************)
(* Strings are sequences of one-character strings.                         *)
(***************************************************************************)
\* the table of main.js
VALID_CHARS ==
  << "q", "p", "z", "r", "y", "9", "x", "8", "g", "f", "2", "t", "v", "d",
     "w", "0", "s", "3", "j", "n", "5", "4", "k", "h", "c", "e", "6", "m",
     "u", "a", "7", "l", "1" >>

\* the 32-symbol alphabet of the address encoding
AddressAlphabet ==
  { "q", "p", "z", "r", "y", "9", "x", "8", "g", "f", "2", "t", "v", "d",
    "w", "0", "s", "3", "j", "n", "5", "4", "k", "h", "c", "e", "6", "m",
    "u", "a", "7", "l" }

UpperAlpha ==
  << "A", "B", "C", "D", "E", "F", "G", "H", "I", "J", "K", "L", "M",
     "N", "O", "P", "Q", "R", "S", "T", "U", "V", "W", "X", "Y", "Z" >>

LowerAlpha ==
  << "a", "b", "c", "d", "e", "f", "g", "h", "i", "j", "k", "l", "m",
     "n", "o", "p", "q", "r", "s", "t", "u", "v", "w", "x", "y", "z" >>

Range(f) == { f[i] : i \in DOMAIN f }

\* String.prototype.toLowerCase on one character
toLowerChar(c) ==
  IF c \in Range(UpperAlpha)
    THEN LowerAlpha[CHOOSE i \in DOMAIN UpperAlpha : UpperAlpha[i] = c]
    ELSE c

\* String.prototype.toLowerCase
toLowerCase(str) == [ i \in DOMAIN str |-> toLowerChar(str[i]) ]

RECURSIVE trimStart(_)
trimStart(str) ==
  IF str # << >> /\ Head(str) = " " THEN trimStart(Tail(str)) ELSE str

RECURSIVE trimEnd(_)
trimEnd(str) ==
  IF str # << >> /\ str[Len(str)] = " "
    THEN trimEnd(SubSeq(str, 1, Len(str) - 1))
    ELSE str

\* String.prototype.trim
trim(str) == trimEnd(trimStart(str))

RECURSIVE Repeat(_, _)
Repeat(c, n) == IF n = 0 THEN << >> ELSE << c >> \o Repeat(c, n - 1)

\* The WASM validator: every character, case-insensitively, is in the
\* address alphabet.
validate_target_string(target) ==
  \A i \in DOMAIN target : toLowerChar(target[i]) \in AddressAlphabet

\* the table of test_suggestions.js
VALID_CHARS_FOR_TEST ==
  << "q", "p", "z", "r", "y", "9", "x", "8", "g", "f", "2", "t", "v", "d",
     "w", "0", "s", "3", "j", "n", "5", "4", "k", "h", "c", "e", "6", "m",
     "u", "a", "7", "l", "1" >>

\* validate_target_string of test_suggestions.js
validate_target_string_mock(target) ==
  IF target = << >>
    THEN FALSE
    ELSE \A i \in DOMAIN target :
           toLowerChar(target[i]) \in Range(VALID_CHARS_FOR_TEST)

\* VALID_CHARS as a validator: every character, lower-cased, is in the table
VALID_CHARS_accepts(target) ==
  \A i \in DOMAIN target : toLowerChar(target[i]) \in Range(VALID_CHARS)

\* the strings over chars of length n at most
Strings(chars, n) == UNION { [1 .. k -> chars] : k \in 0 .. n }

\* The WASM batch-size recommendation: larger batches for shorter targets.
get_optimal_batch_size(target_length) ==
  IF target_length <= ShortTarget THEN LargeBatch ELSE SmallBatch

\* What the form may hold when it is submitted: the text of the target
\* field and the position selected.
FormInputs ==
  { [raw |-> << >>,                                 position |-> "anywhere"],
    [raw |-> << " " >>,                             position |-> "prefix"],
    [raw |-> << " ", "Q", "z" >>,                   position |-> "prefix"],
    [raw |-> << "o", "k" >>,                        position |-> "suffix"],
    [raw |-> Repeat("q", PracticalLength + 1),      position |-> "anywhere"],
    [raw |-> << "b" >> \o Repeat("q", PracticalLength), position |-> "suffix"] }

(***************************************************************************)
(* State.                                                                  *)
(***************************************************************************)
VARIABLES
  hardwareConcurrency, \* navigator.hardwareConcurrency (0: not reported)
  initPc,              \* where app.init() is, and how it ended
  isInitialized,       \* ParallelProcessingManager.isInitialized
  workers,             \* length of ParallelProcessingManager.workers
  messageId,           \* ParallelProcessingManager.messageId
  pendingMessages,     \* ParallelProcessingManager.pendingMessages: message id
                       \* -> the promise its resolve/reject pair settles
  inbox,               \* per worker: the requests posted to it, in order
  isRunning,           \* VanityGeneratorApp.isRunning
  attempts,            \* VanityGeneratorApp.attempts
  status,              \* what the status area shows
  displayed,           \* the keypair the results area shows
  lastStop,            \* what called stopGeneration() last: a cancellation
                       \* or the finally of handleGenerate
  sessions,            \* the searches started so far, one handleGenerate each
  wasmInitialized,     \* per worker: wasmInitialized of worker.js
  handlers,            \* per worker: the calls of onmessage waiting for init()
  busy,                \* per worker: the request whose batch is being run
  outbox,              \* per worker: the response it posted last
  served,              \* per worker: how many requests it has received and
                       \* how many responses it has posted so far
  probes,              \* requests posted to workers by a health check
  unit                 \* the function under test, its input and its result

workerVars == << wasmInitialized, handlers, busy, outbox, served, probes >>

vars ==
  << hardwareConcurrency, initPc, isInitialized, workers, messageId,
     pendingMessages, inbox, isRunning, attempts, status,
     displayed, lastStop, sessions, workerVars, unit >>

NoKeypair == [sess |-> 0, via |-> "none", n |-> 0]

\* a constructor without Math.max(1, ...)
maxWorkers_NoFloor(hc) ==
  LET cores == IF hc = 0 THEN DefaultConcurrency ELSE hc
  IN  cores - ReservedCores

\* ParallelProcessingManager constructor: Math.max(1, (hc || 4) - 2)
maxWorkers(hc) ==
  LET cores == IF hc = 0 THEN DefaultConcurrency ELSE hc
      n     == cores - ReservedCores
  IN  IF n > 1 THEN n ELSE 1

WorkerIds == 0 .. (maxWorkers(DefaultConcurrency) - 1)

\* The part of the state the handlers of the page read and write.
World ==
  [ isInitialized   |-> isInitialized,
    workers         |-> workers,
    messageId       |-> messageId,
    pendingMessages |-> pendingMessages,
    inbox           |-> inbox,
    isRunning       |-> isRunning,
    attempts        |-> attempts,
    status          |-> status,
    displayed       |-> displayed,
    lastStop        |-> lastStop,
    sessions        |-> sessions ]

Commit(W) ==
  /\ isInitialized'   = W.isInitialized
  /\ workers'         = W.workers
  /\ messageId'       = W.messageId
  /\ pendingMessages' = W.pendingMessages
  /\ inbox'           = W.inbox
  /\ isRunning'       = W.isRunning
  /\ attempts'        = W.attempts
  /\ status'          = W.status
  /\ displayed'       = W.displayed
  /\ lastStop'        = W.lastStop
  /\ sessions'        = W.sessions

\* the page after the constructors
InitPage ==
  /\ initPc = "start"
  /\ isInitialized = FALSE
  /\ workers = 0
  /\ messageId = 0
  /\ pendingMessages = << >>
  /\ inbox = [w \in WorkerIds |-> << >>]
  /\ isRunning = FALSE
  /\ attempts = 0
  /\ status = "none"
  /\ displayed = NoKeypair
  /\ lastStop = "none"
  /\ sessions = << >>

NoMessage == [id |-> -1, type |-> "none"]

NoUnit == [op |-> "none"]

\* the workers before they have received anything
InitWorkers ==
  /\ wasmInitialized = [w \in WorkerIds |-> FALSE]
  /\ handlers = [w \in WorkerIds |-> << >>]
  /\ busy = [w \in WorkerIds |-> NoMessage]
  /\ outbox = [w \in WorkerIds |-> NoMessage]
  /\ served = [w \in WorkerIds |-> [received |-> 0, posted |-> 0]]
  /\ probes = 0

Init ==
  /\ hardwareConcurrency \in HardwareConcurrencies
  /\ InitPage
  /\ InitWorkers
  /\ unit = NoUnit


(***************************************************************************)
(* VanityGeneratorApp: status area, start and stop.                        *)
(***************************************************************************)
showStatus(W, message) == [W EXCEPT !.status = message]

hideStatus(W) == [W EXCEPT !.status = "hidden"]

updateProgress(W) == showStatus(W, "progress")

\* showSuccess called by the loop of session s
showSuccess(W, s, keypair) ==
  showStatus([W EXCEPT !.displayed = keypair,
                       !.sessions[s].successes = @ + 1], "success")

startGeneration(W) ==
  showStatus([W EXCEPT !.isRunning = TRUE,
                       !.attempts  = 0,
                       !.displayed = NoKeypair], "starting")

\* every session whose handleGenerate has not finished sees the call
stopGeneration(W) ==
  LET W1 == [W EXCEPT !.isRunning = FALSE,
                      !.sessions = [ i \in DOMAIN @ |->
                          IF @[i].pc # "done"
                            THEN [@[i] EXCEPT !.stopSeen = TRUE]
                            ELSE @[i] ]]
  IN  IF W1.attempts = 0 THEN hideStatus(W1) ELSE showStatus(W1, "stopped")

\* handleGenerate after generationLoop has settled: catch and finally
handleGenerateEnd(W, s, threw) ==
  LET W1 == IF threw THEN showStatus(W, "failed") ELSE W
      \* the locals of the loops of the session are gone
      W2 == [W1 EXCEPT !.sessions[s].pc = "done",
                       !.sessions[s].workerPromises = << >>,
                       !.sessions[s].totalAttempts = 0,
                       !.lastStop = "finally"]
  IN  stopGeneration(W2)

(***************************************************************************)
(* Single-threaded loops.  Each operator is one pass of the loop, from its *)
(* while test to its next await or to the end of handleGenerate.  The      *)
(* outcome of the WASM calls of the pass is an input.                      *)
(***************************************************************************)
BatchOutcomes == {"none", "found", "throw"}

\* the tiers a session has run in, in order
Entered(tiers, tier) ==
  IF tiers # << >> /\ tiers[Len(tiers)] = tier THEN tiers ELSE Append(tiers, tier)

\* how many candidates a pass of the fallback loop has tried when it ends early
EarlyCounts == {1, updateInterval}

\* outcome of a pass of the fallback loop and the candidates it tried
FallbackOutcomes ==
  { << "none", updateInterval >> } \cup ({"found", "throw"} \X EarlyCounts)

\* outcome of generate_vanity_keypair_batch, then of the fallback pass that
\* runs if it throws
PassOutcomes ==
  { << "none", "none", updateInterval >>, << "found", "none", updateInterval >> }
    \cup { << "throw", f[1], f[2] >> : f \in FallbackOutcomes }

\* how the calls of get_optimal_batch_size of a task end: all return, the
\* first one throws, all throw
SizeOutcomes == {"ok", "once", "always"}

\* a per-candidate loop that hands the session back to the batch loop after
\* a pass without a match
fallbackGenerationLoop_ReturnsToBatch(W, s, fo, k) ==
  IF ~W.isRunning
    THEN handleGenerateEnd([W EXCEPT !.sessions[s].outcome = "stopped"], s, FALSE)
    ELSE
      LET W0 == [W EXCEPT !.sessions[s].tier = "fallback",
                          !.sessions[s].tiers = Entered(@, "fallback"),
                          !.sessions[s].batches = @ + 1]
      IN  CASE fo = "none" ->
                 LET W1 == updateProgress([W0 EXCEPT !.attempts = @ + k])
                 IN  [W1 EXCEPT !.sessions[s].pc = "singleSleep"]
            [] fo = "found" ->
                 LET W1 == [W0 EXCEPT !.attempts = @ + k,
                                      !.sessions[s].outcome = "found"]
                     kp == [sess |-> s, via |-> "single", n |-> W0.sessions[s].batches]
                 IN  handleGenerateEnd(showSuccess(W1, s, kp), s, FALSE)
            [] fo = "throw" ->
                 LET W1 == [W0 EXCEPT !.attempts = @ + k,
                                      !.sessions[s].outcome = "failed"]
                 IN  handleGenerateEnd(W1, s, TRUE)

\* one pass of fallbackGenerationLoop; fo: outcome, k: candidates tried
fallbackGenerationLoop(W, s, fo, k) ==
  IF ~W.isRunning
    THEN handleGenerateEnd([W EXCEPT !.sessions[s].outcome = "stopped"], s, FALSE)
    ELSE
      LET W0 == [W EXCEPT !.sessions[s].tier = "fallback",
                          !.sessions[s].tiers = Entered(@, "fallback"),
                          !.sessions[s].batches = @ + 1]
      IN  CASE fo = "none" ->
                 LET W1 == updateProgress([W0 EXCEPT !.attempts = @ + k])
                 IN  [W1 EXCEPT !.sessions[s].pc = "fallbackSleep"]
            [] fo = "found" ->
                 LET W1 == [W0 EXCEPT !.attempts = @ + k,
                                      !.sessions[s].outcome = "found"]
                     kp == [sess |-> s, via |-> "single", n |-> W0.sessions[s].batches]
                 IN  handleGenerateEnd(showSuccess(W1, s, kp), s, FALSE)
            [] fo = "throw" ->
                 LET W1 == [W0 EXCEPT !.attempts = @ + k,
                                      !.sessions[s].outcome = "failed"]
                 IN  handleGenerateEnd(W1, s, TRUE)

\* singleThreadedGenerationLoop without the return after showSuccess
singleThreadedGenerationLoop_NoReturn(W, s, o, fo, k) ==
  IF ~W.isRunning
    THEN handleGenerateEnd([W EXCEPT !.sessions[s].outcome = "stopped"], s, FALSE)
    ELSE
      LET batchSize == get_optimal_batch_size(Len(W.sessions[s].target))
          W0 == [W EXCEPT !.sessions[s].tier = "single",
                          !.sessions[s].tiers = Entered(@, "single")]
      IN  CASE o = "throw" ->
                 fallbackGenerationLoop(W0, s, fo, k)
            [] o = "found" ->
                 LET W1 == [W0 EXCEPT !.attempts = @ + batchSize,
                                      !.sessions[s].batches = @ + 1,
                                      !.sessions[s].outcome = "found"]
                     kp == [sess |-> s, via |-> "batch", n |-> W1.sessions[s].batches]
                 IN  [updateProgress(showSuccess(W1, s, kp))
                        EXCEPT !.sessions[s].pc = "singleSleep"]
            [] o = "none" ->
                 LET W1 == [W0 EXCEPT !.attempts = @ + batchSize,
                                      !.sessions[s].batches = @ + 1]
                 IN  [updateProgress(W1) EXCEPT !.sessions[s].pc = "singleSleep"]

\* a batch loop that sleeps after every second batch only
singleThreadedGenerationLoop_NoSleep(W, s, o, fo, k) ==
  IF ~W.isRunning
    THEN handleGenerateEnd([W EXCEPT !.sessions[s].outcome = "stopped"], s, FALSE)
    ELSE
      LET batchSize == get_optimal_batch_size(Len(W.sessions[s].target))
          W0 == [W EXCEPT !.sessions[s].tier = "single",
                          !.sessions[s].tiers = Entered(@, "single")]
      IN  CASE o = "throw" ->
                 fallbackGenerationLoop(W0, s, fo, k)
            [] o = "found" ->
                 LET W1 == [W0 EXCEPT !.attempts = @ + batchSize,
                                      !.sessions[s].batches = @ + 1,
                                      !.sessions[s].outcome = "found"]
                     kp == [sess |-> s, via |-> "batch", n |-> W1.sessions[s].batches]
                 IN  handleGenerateEnd(showSuccess(W1, s, kp), s, FALSE)
            [] o = "none" ->
                 LET W1 == [W0 EXCEPT !.attempts = @ + 2 * batchSize,
                                      !.sessions[s].batches = @ + 2]
                 IN  [updateProgress(W1) EXCEPT !.sessions[s].pc = "singleSleep"]

\* one pass of singleThreadedGenerationLoop; o: outcome of
\* generate_vanity_keypair_batch, (fo, k): the fallback pass if it throws
singleThreadedGenerationLoop(W, s, o, fo, k) ==
  IF ~W.isRunning
    THEN handleGenerateEnd([W EXCEPT !.sessions[s].outcome = "stopped"], s, FALSE)
    ELSE
      LET batchSize == get_optimal_batch_size(Len(W.sessions[s].target))
          W0 == [W EXCEPT !.sessions[s].tier = "single",
                          !.sessions[s].tiers = Entered(@, "single")]
      IN  CASE o = "throw" ->
                 fallbackGenerationLoop(W0, s, fo, k)
            [] o = "found" ->
                 LET W1 == [W0 EXCEPT !.attempts = @ + batchSize,
                                      !.sessions[s].batches = @ + 1,
                                      !.sessions[s].outcome = "found"]
                     kp == [sess |-> s, via |-> "batch", n |-> W1.sessions[s].batches]
                 IN  handleGenerateEnd(showSuccess(W1, s, kp), s, FALSE)
            [] o = "none" ->
                 LET W1 == [W0 EXCEPT !.attempts = @ + batchSize,
                                      !.sessions[s].batches = @ + 1]
                 IN  [updateProgress(W1) EXCEPT !.sessions[s].pc = "singleSleep"]

\* singleThreadedGenerationLoop from its start: the batch size, then the
\* first pass of the loop
singleThreadedGenerationStart(W, s, g, o, fo, k) ==
  LET W0 == [W EXCEPT !.sessions[s].tier = "single",
                      !.sessions[s].tiers = Entered(@, "single")]
  IN  IF g # "ok"
        THEN handleGenerateEnd([W0 EXCEPT !.sessions[s].outcome = "failed"],
                               s, TRUE)
        ELSE singleThreadedGenerationLoop(W0, s, o, fo, k)

(***************************************************************************)
(* ParallelProcessingManager.                                              *)
(***************************************************************************)
isAvailable(W) == W.isInitialized /\ W.workers > 0

PendingPromise(id) ==
  [id |-> id, state |-> "pending", type |-> "", attempts |-> 0,
   keypair |-> NoKeypair, reason |-> ""]

RejectedPromise(id, reason) ==
  [id |-> id, state |-> "rejected", type |-> "", attempts |-> 0,
   keypair |-> NoKeypair, reason |-> reason]

FulfilledPromise(id, type, data) ==
  [id |-> id, state |-> "fulfilled", type |-> type, attempts |-> data.attempts,
   keypair |-> data.keypair, reason |-> ""]

\* a sendToWorker that takes this.messageId without incrementing it
sendToWorker_ReusesId(W, s, workerIndex) ==
  IF ~W.isInitialized \/ workerIndex >= W.workers
    THEN [W EXCEPT !.sessions[s].workerPromises =
                      Append(@, RejectedPromise(-1, "unavailable"))]
    ELSE
      LET id  == W.messageId
          msg == [id |-> id, type |-> "GENERATE_VANITY_BATCH", sess |-> s,
                  target    |-> W.sessions[s].target,
                  position  |-> W.sessions[s].position,
                  batchSize |-> W.sessions[s].batchSize,
                  workerId  |-> workerIndex]
      IN  [W EXCEPT
             !.pendingMessages = @ @@ (id :> [sess   |-> s,
                                              round  |-> W.sessions[s].round,
                                              worker |-> workerIndex]),
             !.inbox[workerIndex] = Append(@, msg),
             !.sessions[s].workerPromises = Append(@, PendingPromise(id))]

\* sendToWorker called by session s for its current round: the promise is
\* appended to the workerPromises of the session
sendToWorker(W, s, workerIndex) ==
  IF ~W.isInitialized \/ workerIndex >= W.workers
    THEN [W EXCEPT !.sessions[s].workerPromises =
                      Append(@, RejectedPromise(-1, "unavailable"))]
    ELSE
      LET id  == W.messageId
          msg == [id |-> id, type |-> "GENERATE_VANITY_BATCH", sess |-> s,
                  target    |-> W.sessions[s].target,
                  position  |-> W.sessions[s].position,
                  batchSize |-> W.sessions[s].batchSize,
                  workerId  |-> workerIndex]
      IN  [W EXCEPT
             !.messageId = @ + 1,
             !.pendingMessages = @ @@ (id :> [sess   |-> s,
                                              round  |-> W.sessions[s].round,
                                              worker |-> workerIndex]),
             !.inbox[workerIndex] = Append(@, msg),
             !.sessions[s].workerPromises = Append(@, PendingPromise(id))]

\* this.workers.map((_, index) => this.sendToWorker(index, ...))
RECURSIVE sendToWorkers(_, _, _)
sendToWorkers(W, s, index) ==
  IF index >= W.workers
    THEN W
    ELSE sendToWorkers(sendToWorker(W, s, index), s, index + 1)

\* Promise.race in place of Promise.allSettled
allSettled_Race(workerPromises) ==
  \E i \in DOMAIN workerPromises : workerPromises[i].state # "pending"

\* Promise.allSettled(workerPromises) has resolved
allSettled(workerPromises) ==
  \A i \in DOMAIN workerPromises : workerPromises[i].state # "pending"

\* a scan that returns the attempts of the winning batch alone
RECURSIVE scanResults_BatchOnly(_, _, _)
scanResults_BatchOnly(results, i, totalAttempts) ==
  IF i > Len(results)
    THEN [found |-> FALSE, keypair |-> NoKeypair, attempts |-> totalAttempts]
    ELSE
      IF results[i].state = "fulfilled" /\ results[i].type = "VANITY_FOUND"
        THEN [found |-> TRUE, keypair |-> results[i].keypair,
              attempts |-> results[i].attempts]
        ELSE
          IF results[i].state = "fulfilled"
               /\ results[i].type = "VANITY_BATCH_COMPLETE"
            THEN scanResults_BatchOnly(results, i + 1,
                                       totalAttempts + results[i].attempts)
            ELSE scanResults_BatchOnly(results, i + 1, totalAttempts)

\* a scan that looks for a match in the answer of the first worker only
RECURSIVE scanResults_FirstOnly(_, _, _)
scanResults_FirstOnly(results, i, totalAttempts) ==
  IF i > Len(results)
    THEN [found |-> FALSE, keypair |-> NoKeypair, attempts |-> totalAttempts]
    ELSE
      IF results[i].state = "fulfilled" /\ results[i].type = "VANITY_FOUND"
           /\ i = 1
        THEN [found |-> TRUE, keypair |-> results[i].keypair,
              attempts |-> totalAttempts + results[i].attempts]
        ELSE
          IF results[i].state = "fulfilled"
               /\ results[i].type = "VANITY_BATCH_COMPLETE"
            THEN scanResults_FirstOnly(results, i + 1,
                                       totalAttempts + results[i].attempts)
            ELSE scanResults_FirstOnly(results, i + 1, totalAttempts)

\* a scan that goes on after a VANITY_FOUND and returns the last one
RECURSIVE scanResults_LastFound(_, _, _)
scanResults_LastFound(results, i, totalAttempts) ==
  IF i > Len(results)
    THEN [found |-> FALSE, keypair |-> NoKeypair, attempts |-> totalAttempts]
    ELSE
      LET rest == scanResults_LastFound(results, i + 1, totalAttempts)
      IN  IF rest.found
            THEN rest
            ELSE
              IF results[i].state = "fulfilled" /\ results[i].type = "VANITY_FOUND"
                THEN [found |-> TRUE, keypair |-> results[i].keypair,
                      attempts |-> totalAttempts + results[i].attempts]
                ELSE rest

\* for (const result of results): the first VANITY_FOUND ends the scan
RECURSIVE scanResults(_, _, _)
scanResults(results, i, totalAttempts) ==
  IF i > Len(results)
    THEN [found |-> FALSE, keypair |-> NoKeypair, attempts |-> totalAttempts]
    ELSE
      IF results[i].state = "fulfilled" /\ results[i].type = "VANITY_FOUND"
        THEN [found |-> TRUE, keypair |-> results[i].keypair,
              attempts |-> totalAttempts + results[i].attempts]
        ELSE
          IF results[i].state = "fulfilled"
               /\ results[i].type = "VANITY_BATCH_COMPLETE"
            THEN scanResults(results, i + 1, totalAttempts + results[i].attempts)
            ELSE scanResults(results, i + 1, totalAttempts)

\* the requests of a round that were answered with VANITY_FOUND
FoundIds(results) ==
  { results[i].id : i \in { j \in DOMAIN results :
        results[j].state = "fulfilled" /\ results[j].type = "VANITY_FOUND" } }

\* parallelGenerationLoop after generateVanityParallel has returned result
parallelGenerationLoopResult(W, s, result) ==
  IF result.found /\ W.isRunning
    THEN LET W1 == [W EXCEPT !.attempts = result.attempts,
                             !.sessions[s].outcome = "found"]
         IN  handleGenerateEnd(showSuccess(W1, s, result.keypair), s, FALSE)
    ELSE handleGenerateEnd([W EXCEPT !.sessions[s].outcome =
                              IF result.found THEN "discarded" ELSE "stopped"],
                           s, FALSE)

\* generateVanityParallel of session s once the round has settled
roundSettled(W, s) ==
  LET result == scanResults(W.sessions[s].workerPromises, 1,
                            W.sessions[s].totalAttempts)
  IN  IF result.found
        THEN parallelGenerationLoopResult(
               [W EXCEPT !.sessions[s].coordRunning = FALSE,
                         !.sessions[s].result =
                            [found    |-> TRUE,
                             keypair  |-> result.keypair,
                             attempts |-> result.attempts,
                             foundIds |-> FoundIds(W.sessions[s].workerPromises)]],
               s, result)
        ELSE
          \* onProgress(totalAttempts, ...), then the 10 ms pause
          LET W1 == [W EXCEPT !.sessions[s].totalAttempts = result.attempts,
                              !.attempts = result.attempts]
          IN  [updateProgress(W1) EXCEPT !.sessions[s].pc = "coordSleep"]

\* the coordinator of session s resumes if it was waiting for this round
resume(W, s) ==
  IF W.sessions[s].pc = "round" /\ allSettled(W.sessions[s].workerPromises)
    THEN roundSettled(W, s)
    ELSE W

\* generateVanityParallel of session s at its while test
generateVanityParallelLoop(W, s) ==
  IF ~W.sessions[s].coordRunning
    THEN parallelGenerationLoopResult(W, s, [found |-> FALSE,
                                             keypair |-> NoKeypair,
                                             attempts |-> 0])
    ELSE
      LET W1 == [W EXCEPT !.sessions[s].round = @ + 1,
                          !.sessions[s].workerPromises = << >>,
                          !.sessions[s].pc = "round"]
      IN  resume(sendToWorkers(W1, s, 0), s)

\* parallelGenerationLoop of session s from its start
parallelGenerationLoop(W, s, g, o, fo, k) ==
  LET W0 == [W EXCEPT !.sessions[s].tier = "parallel",
                      !.sessions[s].tiers = Entered(@, "parallel")]
  IN  IF ~W.isInitialized \/ W.workers = 0 \/ g # "ok"
        THEN \* generateVanityParallel throws before its loop; the catch
             \* falls back
             singleThreadedGenerationStart(
               W0, s, IF g = "once" THEN "ok" ELSE g, o, fo, k)
        ELSE generateVanityParallelLoop(
               [W0 EXCEPT !.sessions[s].coordRunning = TRUE,
                          !.sessions[s].totalAttempts = 0], s)

generationLoop(W, s, g, o, fo, k) ==
  IF isAvailable(W)
    THEN parallelGenerationLoop(W, s, g, o, fo, k)
    ELSE singleThreadedGenerationStart(W, s, g, o, fo, k)

\* the promise behind a resolve/reject pair is settled with p
settle(W, closure, p) ==
  LET s  == closure.sess
      W1 == IF W.sessions[s].pc = "round"
                 /\ W.sessions[s].round = closure.round
                 /\ closure.worker + 1 \in DOMAIN W.sessions[s].workerPromises
              THEN [W EXCEPT !.sessions[s].workerPromises[closure.worker + 1] = p]
              ELSE W
  IN  resume(W1, s)

RemoveKey(f, key) == [x \in DOMAIN f \ {key} |-> f[x]]

\* a page that hands a response to the oldest pending request
handleWorkerMessage_OldestPending(W, id, type, success, data) ==
  IF DOMAIN W.pendingMessages # {}
    THEN
      LET oldest  == CHOOSE x \in DOMAIN W.pendingMessages :
                       \A y \in DOMAIN W.pendingMessages : x <= y
          closure == W.pendingMessages[oldest]
          W1 == [W EXCEPT !.pendingMessages = RemoveKey(@, oldest)]
      IN  IF success
            THEN settle([W1 EXCEPT !.sessions[closure.sess].received =
                                      @ + data.attempts],
                        closure, FulfilledPromise(id, type, data))
            ELSE settle([W1 EXCEPT !.sessions[closure.sess].errors = @ + 1],
                        closure, RejectedPromise(id, "error"))
    ELSE W

handleWorkerMessage(W, id, type, success, data) ==
  IF id \in DOMAIN W.pendingMessages
    THEN
      LET closure == W.pendingMessages[id]
          W1 == [W EXCEPT !.pendingMessages = RemoveKey(@, id)]
      IN  IF success
            THEN settle([W1 EXCEPT !.sessions[closure.sess].received =
                                      @ + data.attempts],
                        closure, FulfilledPromise(id, type, data))
            ELSE settle([W1 EXCEPT !.sessions[closure.sess].errors = @ + 1],
                        closure, RejectedPromise(id, "error"))
    ELSE W

\* a timer that resolves the request as a finished batch
sendToWorkerTimeout_Resolves(W, id) ==
  IF id \in DOMAIN W.pendingMessages
    THEN settle([W EXCEPT !.pendingMessages = RemoveKey(@, id),
                          !.sessions[W.pendingMessages[id].sess].timeouts = @ + 1],
                W.pendingMessages[id],
                FulfilledPromise(id, "VANITY_BATCH_COMPLETE",
                  [keypair  |-> NoKeypair,
                   attempts |-> W.sessions[W.pendingMessages[id].sess].batchSize]))
    ELSE W

\* the 30 s timer of sendToWorker fires
sendToWorkerTimeout(W, id) ==
  IF id \in DOMAIN W.pendingMessages
    THEN settle([W EXCEPT !.pendingMessages = RemoveKey(@, id),
                          !.sessions[W.pendingMessages[id].sess].timeouts = @ + 1],
                W.pendingMessages[id], RejectedPromise(id, "timeout"))
    ELSE W

(***************************************************************************)
(* The worker (worker.js).  Handling a request and delivering its response *)
(* to handleWorkerMessage are taken as one step; a response that would     *)
(* arrive after the timer of its request is the answer to a request that   *)
(* is no longer pending.                                                   *)
(***************************************************************************)
\* a worker that always takes the recommended batch size
actualBatchSize_IgnoresRequest(batchSize, target) ==
  get_optimal_batch_size(Len(target))

\* const actualBatchSize = batchSize || get_optimal_batch_size(target.length)
actualBatchSize(batchSize, target) ==
  IF batchSize # 0 THEN batchSize ELSE get_optimal_batch_size(Len(target))

\* a worker that reports one attempt for the batch that ends in a match
handleVanityBatch_CountsMatch(msg, result) ==
  LET size == actualBatchSize(msg.batchSize, msg.target)
  IN  IF result # NoKeypair
        THEN [id |-> msg.id, type |-> "VANITY_FOUND", success |-> TRUE,
              data |-> [keypair |-> result, attempts |-> 1]]
        ELSE [id |-> msg.id, type |-> "VANITY_BATCH_COMPLETE", success |-> TRUE,
              data |-> [keypair |-> NoKeypair, attempts |-> size]]

\* handleVanityBatch: result is what generate_vanity_keypair_batch returned
handleVanityBatch(msg, result) ==
  LET size == actualBatchSize(msg.batchSize, msg.target)
  IN  IF result # NoKeypair
        THEN [id |-> msg.id, type |-> "VANITY_FOUND", success |-> TRUE,
              data |-> [keypair |-> result, attempts |-> size]]
        ELSE [id |-> msg.id, type |-> "VANITY_BATCH_COMPLETE", success |-> TRUE,
              data |-> [keypair |-> NoKeypair, attempts |-> size]]

\* self.onmessage: the response it posts; outcome is "found", "none" or
\* "throw" (initWasm or the batch throws)
onmessage(msg, outcome) ==
  IF outcome = "throw"
    THEN [id |-> msg.id, type |-> "ERROR", success |-> FALSE,
          data |-> [keypair |-> NoKeypair, attempts |-> 0]]
    ELSE
      CASE msg.type = "GENERATE_VANITY_BATCH" ->
             handleVanityBatch(msg,
               IF outcome = "found"
                 THEN [sess |-> msg.sess, via |-> "worker", n |-> msg.id]
                 ELSE NoKeypair)
        [] msg.type = "PING" ->
             [id |-> msg.id, type |-> "PONG", success |-> TRUE,
              data |-> [keypair |-> NoKeypair, attempts |-> 0]]
        [] OTHER ->      \* Unknown message type
             [id |-> msg.id, type |-> "ERROR", success |-> FALSE,
              data |-> [keypair |-> NoKeypair, attempts |-> 0]]

(***************************************************************************)
(* VanityGeneratorApp: input validation and handleGenerate.                *)
(***************************************************************************)
\* validateInput without the character check
validateInput_AnyChars(target) ==
  IF target = << >> THEN FALSE ELSE TRUE

\* validateInput: the value it returns (canGenerate)
validateInput(target) ==
  IF target = << >>
    THEN FALSE
    ELSE IF ~validate_target_string(target)
      THEN FALSE
      ELSE IF Len(target) > PracticalLength
        THEN TRUE
        ELSE IF Len(target) < 1 THEN FALSE ELSE TRUE

NoResult ==
  [found |-> FALSE, keypair |-> NoKeypair, attempts |-> 0, foundIds |-> {}]

NewSession(target, position) ==
  [ target         |-> target,
    position       |-> position,
    tier           |-> "none",
    tiers          |-> << >>,
    pc             |-> "start",
    outcome        |-> "none",
    stopSeen       |-> FALSE,
    successes      |-> 0,
    batches        |-> 0,
    batchSize      |-> get_optimal_batch_size(Len(target)),
    totalAttempts  |-> 0,
    coordRunning   |-> FALSE,
    round          |-> 0,
    workerPromises |-> << >>,
    result         |-> NoResult,
    received       |-> 0,
    errors         |-> 0,
    timeouts       |-> 0 ]

handleGenerate(W, raw, position, g, o, fo, k) ==
  IF W.isRunning
    THEN stopGeneration([W EXCEPT !.lastStop = "cancel"])
    ELSE
      LET target == toLowerCase(trim(raw))
      IN  IF ~validateInput(target)
            THEN W
            ELSE IF target = << >>
              THEN showStatus(W, "enter_target")
              ELSE
                LET W1 == startGeneration(W)
                    s  == Len(W.sessions) + 1
                    W2 == [W1 EXCEPT !.sessions =
                                        Append(@, NewSession(target, position))]
                IN  generationLoop(W2, s, g, o, fo, k)

(***************************************************************************)
(* Actions.                                                                *)
(***************************************************************************)
Ready == initPc \in {"ready", "probe_error", "probe_timeout", "unsupported"}

AppVarsUnchanged ==
  UNCHANGED << messageId, pendingMessages, inbox, isRunning, attempts,
               displayed, lastStop, sessions, workerVars, unit >>

\* app.init() up to the await inside parallelManager.init()
AppInit(wasmOk, workerOk) ==
  /\ initPc = "start"
  /\ IF ~wasmOk
       THEN /\ initPc' = "failed"
            /\ status' = "init_failed"
       ELSE IF ~workerOk
         THEN /\ initPc' = "unsupported"     \* new Worker() throws
              /\ status' = "ready_single"
         ELSE /\ initPc' = "probing"
              /\ status' = status
  /\ UNCHANGED << hardwareConcurrency, isInitialized, workers >>
  /\ AppVarsUnchanged

\* the probe worker posts WORKER_READY: the pool is created
ProbeReady ==
  /\ initPc = "probing"
  /\ initPc' = "ready"
  /\ workers' = maxWorkers(hardwareConcurrency)
  /\ isInitialized' = TRUE
  /\ status' = "ready_parallel"
  /\ UNCHANGED hardwareConcurrency
  /\ AppVarsUnchanged

\* the probe worker raises an error event
ProbeError ==
  /\ initPc = "probing"
  /\ initPc' = "probe_error"
  /\ workers' = 0
  /\ isInitialized' = FALSE
  /\ status' = "ready_single"
  /\ UNCHANGED hardwareConcurrency
  /\ AppVarsUnchanged

\* init() going on to create the pool after the 5 s timer
ProbeTimeout_KeepsPool ==
  /\ initPc = "probing"
  /\ initPc' = "probe_timeout"
  /\ workers' = maxWorkers(hardwareConcurrency)
  /\ isInitialized' = TRUE
  /\ status' = "ready_parallel"
  /\ UNCHANGED hardwareConcurrency
  /\ AppVarsUnchanged

\* the 5 s timer of init() fires first
ProbeTimeout ==
  /\ initPc = "probing"
  /\ initPc' = "probe_timeout"
  /\ workers' = 0
  /\ isInitialized' = FALSE
  /\ status' = "ready_single"
  /\ UNCHANGED hardwareConcurrency
  /\ AppVarsUnchanged

RECURSIVE SumBatches(_, _)
SumBatches(ss, i) ==
  IF i > Len(ss) THEN 0 ELSE ss[i].batches + SumBatches(ss, i + 1)

\* the model follows the page while it stays within its bounds: requests
\* and batches on the main thread share the budget of the requests
CanSendRound == messageId + SumBatches(sessions, 1) + workers <= MaxMessages
CanRunBatch  ==
  /\ SumBatches(sessions, 1) < MaxBatches
  /\ messageId + SumBatches(sessions, 1) < MaxMessages
CanStart ==
  /\ Len(sessions) < MaxSessions
  /\ IF isAvailable(World) THEN CanSendRound ELSE CanRunBatch

\* the form is submitted
Submit(raw, position, g, o, fo, k) ==
  /\ Ready
  /\ isRunning \/ ~validateInput(toLowerCase(trim(raw))) \/ CanStart
  /\ Commit(handleGenerate(World, raw, position, g, o, fo, k))
  /\ UNCHANGED << hardwareConcurrency, initPc, workerVars, unit >>

\* keydown: Escape
Escape ==
  /\ Ready
  /\ IF isRunning
       THEN Commit(stopGeneration([World EXCEPT !.lastStop = "cancel"]))
       ELSE Commit(World)
  /\ UNCHANGED << hardwareConcurrency, initPc, workerVars, unit >>

\* visibilitychange with document.hidden
PageHidden ==
  /\ Ready
  /\ IF isRunning
       THEN Commit(stopGeneration([World EXCEPT !.lastStop = "cancel"]))
       ELSE Commit(World)
  /\ UNCHANGED << hardwareConcurrency, initPc, workerVars, unit >>

\* the 10 ms pause of generateVanityParallel ends
CoordinatorWake(s) ==
  /\ s \in DOMAIN sessions
  /\ sessions[s].pc = "coordSleep"
  /\ CanSendRound
  /\ Commit(generateVanityParallelLoop(World, s))
  /\ UNCHANGED << hardwareConcurrency, initPc, workerVars, unit >>

\* sleep(5) of singleThreadedGenerationLoop ends
SingleWake(s, o, fo, k) ==
  /\ s \in DOMAIN sessions
  /\ sessions[s].pc = "singleSleep"
  /\ CanRunBatch
  /\ Commit(singleThreadedGenerationLoop(World, s, o, fo, k))
  /\ UNCHANGED << hardwareConcurrency, initPc, workerVars, unit >>

\* sleep(10) of fallbackGenerationLoop ends
FallbackWake(s, fo, k) ==
  /\ s \in DOMAIN sessions
  /\ sessions[s].pc = "fallbackSleep"
  /\ CanRunBatch
  /\ Commit(fallbackGenerationLoop(World, s, fo, k))
  /\ UNCHANGED << hardwareConcurrency, initPc, workerVars, unit >>

\* worker w handles the oldest request posted to it and its response is
\* delivered
WorkerAnswer(w, outcome) ==
  /\ w \in DOMAIN inbox
  /\ inbox[w] # << >>
  /\ LET msg      == Head(inbox[w])
         response == onmessage(msg, outcome)
         W1 == [World EXCEPT !.inbox[w] = Tail(@)]
     IN  Commit(handleWorkerMessage(W1, response.id, response.type,
                                    response.success, response.data))
  /\ UNCHANGED << hardwareConcurrency, initPc, workerVars, unit >>

\* the 30 s timer of request id fires
Timeout(id) ==
  /\ id \in 0 .. (messageId - 1)
  /\ Commit(sendToWorkerTimeout(World, id))
  /\ UNCHANGED << hardwareConcurrency, initPc, workerVars, unit >>

\* the searches in which get_optimal_batch_size has thrown
Trapped ==
  { s \in DOMAIN sessions :
      \/ Len(sessions[s].tiers) >= 2 /\ sessions[s].tiers[1] = "parallel"
      \/ sessions[s].outcome = "failed" /\ sessions[s].batches = 0 }

CanTrap == Cardinality(Trapped) < MaxTraps

SessionIds == 1 .. MaxSessions

MessageIds == 0 .. (MaxMessages - 1)

\* the inputs of a submit that make a difference in the current state
SubmitInputs ==
  LET p0 == CHOOSE q \in PassOutcomes : TRUE
      f0 == CHOOSE f \in FormInputs : TRUE
      \* the ways a search that meets a throwing call can go on
      Traps(f, gs) ==
        IF CanTrap
          THEN { << f, p, "once" >> : p \in (IF "once" \in gs THEN PassOutcomes ELSE {}) }
                 \cup { << f, p0, "always" >> }
          ELSE {}
  IN  IF isRunning
        THEN { << f0, p0, "ok" >> }
        ELSE UNION {
               IF ~validateInput(toLowerCase(trim(f.raw)))
                 THEN { << f, p0, "ok" >> }
                 ELSE IF isAvailable(World)
                   THEN { << f, p0, "ok" >> } \cup Traps(f, {"once", "always"})
                   ELSE { << f, p, "ok" >> : p \in PassOutcomes }
                          \cup Traps(f, {"always"})
               : f \in FormInputs }

\* the form is submitted with some content, and the WASM calls of the first
\* pass of the loop it starts end in some way
FormSubmit ==
  \E in \in SubmitInputs :
    Submit(in[1].raw, in[1].position, in[3], in[2][1], in[2][2], in[2][3])

Next ==
  \/ \E wasmOk \in BOOLEAN, workerOk \in BOOLEAN : AppInit(wasmOk, workerOk)
  \/ ProbeReady
  \/ ProbeError
  \/ ProbeTimeout
  \/ FormSubmit
  \/ Escape
  \/ PageHidden
  \/ \E s \in SessionIds : CoordinatorWake(s)
  \/ \E s \in SessionIds, p \in PassOutcomes :
       SingleWake(s, p[1], p[2], p[3])
  \/ \E s \in SessionIds, f \in FallbackOutcomes : FallbackWake(s, f[1], f[2])
  \/ \E w \in WorkerIds, outcome \in BatchOutcomes : WorkerAnswer(w, outcome)
  \/ \E id \in MessageIds : Timeout(id)

Spec == Init /\ [][Next]_vars

(***************************************************************************)
(* The validators on their own: a string is given to the WASM validator,   *)
(* to the table of main.js and to the validator of the test.               *)
(***************************************************************************)
pageVars ==
  << hardwareConcurrency, initPc, isInitialized, workers, messageId,
     pendingMessages, inbox, isRunning, attempts, status,
     displayed, lastStop, sessions >>

\* a valid letter, a valid letter in upper case, the digit of the separator,
\* a letter outside the alphabet, a valid digit
ValidateChars == {"q", "L", "1", "b", "7"}

InitValidate ==
  /\ hardwareConcurrency = 0
  /\ InitPage
  /\ InitWorkers
  /\ unit \in { [op |-> "validate", S |-> str, done |-> FALSE,
                  wasm |-> FALSE, table |-> FALSE, mock |-> FALSE] :
                str \in Strings(ValidateChars, MaxStrLen) }

Validate ==
  /\ unit.op = "validate"
  /\ ~unit.done
  /\ unit' = [unit EXCEPT !.done  = TRUE,
                          !.wasm  = validate_target_string(unit.S),
                          !.table = VALID_CHARS_accepts(unit.S),
                          !.mock  = validate_target_string_mock(unit.S)]
  /\ UNCHANGED << pageVars, workerVars >>

NextValidate == Validate

SpecValidate == InitValidate /\ [][NextValidate]_vars

(***************************************************************************)
(* The match decision of the per-candidate loop on its own: an address and *)
(* the text of the target field are given, the target is normalised as     *)
(* handleGenerate does and the loop decides.                               *)
(***************************************************************************)
\* String.prototype.startsWith
startsWith(str, searchString) ==
  /\ Len(searchString) <= Len(str)
  /\ SubSeq(str, 1, Len(searchString)) = searchString

\* String.prototype.endsWith
endsWith(str, searchString) ==
  /\ Len(searchString) <= Len(str)
  /\ SubSeq(str, Len(str) - Len(searchString) + 1, Len(str)) = searchString

\* String.prototype.includes
includes(str, searchString) ==
  \E i \in 0 .. (Len(str) - Len(searchString)) :
    SubSeq(str, i + 1, i + Len(searchString)) = searchString

\* 'mantra1'
Mantra1 == << "m", "a", "n", "t", "r", "a", "1" >>

\* the decision that drops 'mantra1' from the prefix test
isMatch_NoSeparator(keypairAddress, target, position) ==
  LET address == toLowerCase(keypairAddress)
  IN  CASE position = "prefix" -> startsWith(address, target)
        [] position = "suffix" -> endsWith(address, target)
        [] OTHER               -> includes(address, target)

\* isMatch of fallbackGenerationLoop for one candidate
isMatch(keypairAddress, target, position) ==
  LET address == toLowerCase(keypairAddress)
  IN  CASE position = "prefix" -> startsWith(address, Mantra1 \o target)
        [] position = "suffix" -> endsWith(address, target)
        [] OTHER               -> includes(address, target)

\* the characters after the separator, and the characters typed
BodyChars == {"q", "M", "a"}
TargetChars == {"q", "m", "A"}

\* addresses in lower and in upper case
Addresses ==
  { hrp \o body : hrp \in { Mantra1, << "M", "A", "N", "T", "R", "A", "1" >> },
                   body \in Strings(BodyChars, MaxStrLen) }

InitMatch ==
  /\ hardwareConcurrency = 0
  /\ InitPage
  /\ InitWorkers
  /\ unit \in { [op |-> "match", address |-> A, T |-> T, position |-> p,
                  done |-> FALSE, isMatch |-> FALSE] :
                A \in Addresses,
                T \in (Strings(TargetChars, MaxStrLen) \ { << >> })
                        \cup Addresses,
                p \in Positions }

CheckCandidate ==
  /\ unit.op = "match"
  /\ ~unit.done
  /\ unit' = [unit EXCEPT
                !.done = TRUE,
                !.isMatch = isMatch(unit.address, toLowerCase(trim(unit.T)),
                                    unit.position)]
  /\ UNCHANGED << pageVars, workerVars >>

NextMatch == CheckCandidate

SpecMatch == InitMatch /\ [][NextMatch]_vars

(***************************************************************************)
(* The start of the page on machines of every size: the constructors, then *)
(* init() and however its probe ends.                                      *)
(***************************************************************************)
InitAnyCores ==
  /\ hardwareConcurrency \in 0 .. MaxCores
  /\ InitPage
  /\ InitWorkers
  /\ unit = NoUnit

NextInit ==
  \/ \E wasmOk \in BOOLEAN, workerOk \in BOOLEAN : AppInit(wasmOk, workerOk)
  \/ ProbeReady
  \/ ProbeError
  \/ ProbeTimeout

SpecInit == InitAnyCores /\ [][NextInit]_vars

(***************************************************************************)
(* One batch on its own: handleVanityBatch calls                           *)
(* generate_vanity_keypair_batch, which derives candidates one at a time   *)
(* and tests each; matches[k] says whether the k-th candidate the random   *)
(* source yields matches the target.                                       *)
(***************************************************************************)
\* one iteration of the loop of generate_vanity_keypair_batch
search_batch_step(u) ==
  IF u.i >= u.batch_size
    THEN [u EXCEPT !.pc = "done"]                       \* none
    ELSE IF u.matches[u.i + 1]
      THEN [u EXCEPT !.i = @ + 1, !.result = u.i + 1, !.pc = "done"]
      ELSE [u EXCEPT !.i = @ + 1]

InitBatch ==
  /\ hardwareConcurrency = 0
  /\ InitPage
  /\ InitWorkers
  /\ unit \in { [op |-> "batch", batchSize |-> b, target |-> t, matches |-> ms,
                  pc |-> "call", batch_size |-> 0, i |-> 0, result |-> 0] :
                b \in 0 .. LargeBatch,
                t \in { << "q" >>, Repeat("q", ShortTarget + 1) },
                ms \in [1 .. (LargeBatch + 1) -> BOOLEAN] }

\* handleVanityBatch calls generate_vanity_keypair_batch
BatchCall ==
  /\ unit.op = "batch"
  /\ unit.pc = "call"
  /\ unit' = [unit EXCEPT
                !.pc = "loop",
                !.batch_size = actualBatchSize(unit.batchSize, unit.target)]
  /\ UNCHANGED << pageVars, workerVars >>

\* the loop derives and tests one more candidate, or ends
BatchStep ==
  /\ unit.op = "batch"
  /\ unit.pc = "loop"
  /\ unit' = search_batch_step(unit)
  /\ UNCHANGED << pageVars, workerVars >>

NextBatch == BatchCall \/ BatchStep

SpecBatch == InitBatch /\ [][NextBatch]_vars

(***************************************************************************)
(* The workers in detail.  A worker runs one task at a time: the handler   *)
(* of a message up to its await, or the rest of a handler once init() has  *)
(* settled.  The batch of a request takes time, during which the page      *)
(* goes on; the worker takes up nothing else until it has posted the       *)
(* response.  The step that posts a response includes its delivery to the  *)
(* page, as WorkerAnswer does.                                             *)
(***************************************************************************)
Received(count) == [count EXCEPT !.received = @ + 1]

Posted(count) == [count EXCEPT !.posted = @ + 1]

\* self.postMessage(response) of worker w and worker.onmessage of the page
postMessage(w, response, count, W) ==
  /\ outbox' = [outbox EXCEPT ![w] = response]
  /\ served' = [served EXCEPT ![w] = Posted(count)]
  /\ Commit(handleWorkerMessage(W, response.id, response.type,
                                 response.success, response.data))

\* the switch of onmessage after initWasm(): the batch starts, or the
\* response is posted at once
dispatch(w, msg, count, W) ==
  IF msg.type = "GENERATE_VANITY_BATCH"
    THEN /\ busy' = [busy EXCEPT ![w] = msg]
         /\ outbox' = outbox
         /\ served' = [served EXCEPT ![w] = count]
         /\ Commit(W)
    ELSE /\ busy' = busy
         /\ postMessage(w, onmessage(msg, "none"), count, W)

\* a worker that takes up the next message while a batch is running
WorkerReceive_Reentrant(w) ==
  /\ w \in DOMAIN inbox
  /\ inbox[w] # << >>
  /\ LET msg   == Head(inbox[w])
         count == Received(served[w])
         W1    == [World EXCEPT !.inbox[w] = Tail(@)]
     IN  IF wasmInitialized[w]
           THEN /\ handlers' = handlers
                /\ dispatch(w, msg, count, W1)
           ELSE /\ handlers' = [handlers EXCEPT ![w] = Append(@, msg)]
                /\ served' = [served EXCEPT ![w] = count]
                /\ Commit(W1)
                /\ UNCHANGED << busy, outbox >>
  /\ UNCHANGED << hardwareConcurrency, initPc, wasmInitialized, probes, unit >>

\* worker w takes the oldest message posted to it: onmessage up to
\* await initWasm(), and beyond it if the module is initialised
WorkerReceive(w) ==
  /\ w \in DOMAIN inbox
  /\ inbox[w] # << >>
  /\ busy[w] = NoMessage
  /\ LET msg   == Head(inbox[w])
         count == Received(served[w])
         W1    == [World EXCEPT !.inbox[w] = Tail(@)]
     IN  IF wasmInitialized[w]
           THEN /\ handlers' = handlers
                /\ dispatch(w, msg, count, W1)
           ELSE /\ handlers' = [handlers EXCEPT ![w] = Append(@, msg)]
                /\ served' = [served EXCEPT ![w] = count]
                /\ Commit(W1)
                /\ UNCHANGED << busy, outbox >>
  /\ UNCHANGED << hardwareConcurrency, initPc, wasmInitialized, probes, unit >>

\* init() of the k-th waiting handler of worker w settles
WorkerInitDone(w, k, ok) ==
  /\ k \in DOMAIN handlers[w]
  /\ busy[w] = NoMessage
  /\ LET msg  == handlers[w][k]
         rest == SubSeq(handlers[w], 1, k - 1)
                   \o SubSeq(handlers[w], k + 1, Len(handlers[w]))
     IN  /\ handlers' = [handlers EXCEPT ![w] = rest]
         /\ IF ok
              THEN /\ wasmInitialized' = [wasmInitialized EXCEPT ![w] = TRUE]
                   /\ dispatch(w, msg, served[w], World)
              ELSE /\ wasmInitialized' = wasmInitialized
                   /\ busy' = busy
                   /\ postMessage(w, onmessage(msg, "throw"), served[w], World)
  /\ UNCHANGED << hardwareConcurrency, initPc, probes, unit >>

\* the batch worker w is running ends and the response is posted
BatchEnd(w, outcome) ==
  /\ busy[w] # NoMessage
  /\ postMessage(w, onmessage(busy[w], outcome), served[w], World)
  /\ busy' = [busy EXCEPT ![w] = NoMessage]
  /\ UNCHANGED << hardwareConcurrency, initPc, wasmInitialized, handlers,
                  probes, unit >>

\* what a health check posts: a PING, or a type the worker does not know
ProbeTypes == {"PING", "STATUS"}

\* a request that is not a batch request is posted to worker w
HealthCheck(w, type) ==
  /\ Ready
  /\ isInitialized
  /\ w < workers
  /\ probes < MaxProbes
  /\ inbox' = [inbox EXCEPT ![w] =
                 Append(@, [id |-> -2 - probes, type |-> type, sess |-> 0,
                            target |-> << >>, position |-> "anywhere",
                            batchSize |-> 0, workerId |-> w])]
  /\ probes' = probes + 1
  /\ UNCHANGED << hardwareConcurrency, initPc, isInitialized, workers,
                  messageId, pendingMessages, isRunning, attempts, status,
                  displayed, lastStop, sessions, wasmInitialized, handlers,
                  busy, outbox, served, unit >>

HandlerIds == 1 .. (MaxMessages + MaxProbes)

\* the form is submitted with a target that passes validation and no WASM
\* call of the page throws: a parallel search starts, or the running one stops
WorkerSubmit ==
  LET f == CHOOSE g \in FormInputs : validateInput(toLowerCase(trim(g.raw)))
      p == CHOOSE q \in PassOutcomes : TRUE
  IN  Submit(f.raw, f.position, "ok", p[1], p[2], p[3])

NextWorker ==
  \/ AppInit(TRUE, TRUE)
  \/ ProbeReady
  \/ WorkerSubmit
  \/ \E s \in SessionIds : CoordinatorWake(s)
  \/ \E w \in WorkerIds, type \in ProbeTypes : HealthCheck(w, type)
  \/ \E w \in WorkerIds : WorkerReceive(w)
  \/ \E w \in WorkerIds, k \in HandlerIds, ok \in BOOLEAN : WorkerInitDone(w, k, ok)
  \/ \E w \in WorkerIds, outcome \in BatchOutcomes : BatchEnd(w, outcome)

SpecWorker == Init /\ [][NextWorker]_vars

(***************************************************************************)
(* The workers in detail together with the 30 s timers of the requests: a  *)
(* timer may fire while the request waits at the worker or while its batch *)
(* is running.                                                             *)
(***************************************************************************)
NextRound ==
  \/ AppInit(TRUE, TRUE)
  \/ ProbeReady
  \/ WorkerSubmit
  \/ \E s \in SessionIds : CoordinatorWake(s)
  \/ \E id \in MessageIds : Timeout(id)
  \/ \E w \in WorkerIds : WorkerReceive(w)
  \/ \E w \in WorkerIds, k \in HandlerIds, ok \in BOOLEAN : WorkerInitDone(w, k, ok)
  \/ \E w \in WorkerIds, outcome \in BatchOutcomes : BatchEnd(w, outcome)

SpecRound == Init /\ [][NextRound]_vars

(***************************************************************************)
(* The page with its beforeunload handler, which may run while the page    *)
(* stays (the navigation is cancelled, or the page is kept and restored).  *)
(* A terminated worker takes up no message and posts nothing.  The only    *)
(* thing assumed to happen is that a 30 s timer that is set fires.         *)
(***************************************************************************)
\* ParallelProcessingManager.terminate
terminate(W) ==
  [W EXCEPT !.workers = 0,
            !.isInitialized = FALSE,
            !.pendingMessages = << >>,
            !.inbox = [w \in DOMAIN @ |-> << >>]]

\* VanityGeneratorApp.cleanup
cleanup(W) == terminate(stopGeneration([W EXCEPT !.lastStop = "cancel"]))

\* beforeunload
Cleanup ==
  /\ Ready
  /\ Commit(cleanup(World))
  /\ UNCHANGED << hardwareConcurrency, initPc, workerVars, unit >>

\* the pause of the coordinator of session s is over; with no worker left
\* a round is empty and needs no request, so the rounds are counted
UnloadWake(s) ==
  /\ s \in DOMAIN sessions
  /\ sessions[s].round < MaxMessages
  /\ CoordinatorWake(s)

NextUnload ==
  \/ AppInit(TRUE, TRUE)
  \/ ProbeReady
  \/ WorkerSubmit
  \/ \E s \in SessionIds : UnloadWake(s)
  \/ \E w \in WorkerIds, outcome \in BatchOutcomes : WorkerAnswer(w, outcome)
  \/ \E id \in MessageIds : Timeout(id)
  \/ Cleanup

SpecUnload ==
  /\ Init
  /\ [][NextUnload]_vars
  /\ \A id \in MessageIds : WF_vars(Timeout(id))

(***************************************************************************)
(* generateSuggestions on its own: main.js's and the copy the test runs.   *)
(* Both are given a text, a limit and a validator (the WASM one or the     *)
(* one of the test).  The Set of suggestions is a sequence without         *)
(* repetitions, in the order of insertion.                                 *)
(*                                                                         *)
(* A string is its sequence of UTF-16 code units: str[i] and str.length    *)
(* count code units, while Array.from(str) has one element per code point. *)
(* The two differ for a character outside the basic plane, which is two    *)
(* code units (a surrogate pair) and one element.                          *)
(***************************************************************************)
\* the two code units of U+1F600, and the array element that holds both
Surrogates == [high |-> "D83D", low |-> "DE00", pair |-> "1F600"]

\* Array.from(str): one element per code point
RECURSIVE ArrayFrom(_)
ArrayFrom(str) ==
  IF str = << >>
    THEN << >>
    ELSE IF Len(str) >= 2 /\ str[1] = Surrogates.high
                          /\ str[2] = Surrogates.low
      THEN << Surrogates.pair >> \o ArrayFrom(SubSeq(str, 3, Len(str)))
      ELSE << str[1] >> \o ArrayFrom(Tail(str))

\* chars.join(''): an element that was never assigned gives nothing
RECURSIVE join(_)
join(chars) ==
  IF chars = << >>
    THEN << >>
    ELSE (IF chars[1] = Surrogates.pair
            THEN << Surrogates.high, Surrogates.low >>
          ELSE IF chars[1] = "" THEN << >>
          ELSE << chars[1] >>) \o join(Tail(chars))

\* chars[index] = char (index from 1): an index past the end extends the
\* array
setAt(chars, index, char) ==
  [ i \in 1 .. (IF index > Len(chars) THEN index ELSE Len(chars)) |->
      IF i = index THEN char
      ELSE IF i <= Len(chars) THEN chars[i] ELSE "" ]

COMMON_SUBSTITUTES == [c \in {"o", "i", "b"} |->
                        IF c = "o" THEN "0" ELSE IF c = "i" THEN "1" ELSE "8"]

Validators == {"wasm", "mock"}

\* validate_target_string as the caller sees it
validate(validator, target) ==
  IF validator = "wasm"
    THEN validate_target_string(target)
    ELSE validate_target_string_mock(target)

\* COMMON_SUBSTITUTES[char], "" for undefined
substitute(char) ==
  IF char \in DOMAIN COMMON_SUBSTITUTES THEN COMMON_SUBSTITUTES[char] ELSE ""

\* COMMON_SUBSTITUTES[char] || VALID_CHARS[0]
substituteOrFirst(char) ==
  IF substitute(char) # "" THEN substitute(char) ELSE VALID_CHARS[1]

\* an addSuggestion that does not validate the pattern
addSuggestion_NoValidate(validator, suggestions, maxSuggestions, patternStr) ==
  IF Len(suggestions) < maxSuggestions /\ patternStr \notin Range(suggestions)
    THEN Append(suggestions, patternStr)
    ELSE suggestions

addSuggestion(validator, suggestions, maxSuggestions, patternStr) ==
  IF /\ Len(suggestions) < maxSuggestions
     /\ validate(validator, patternStr)
     /\ patternStr \notin Range(suggestions)
    THEN Append(suggestions, patternStr)
    ELSE suggestions

\* Suggestion 1: every invalid character replaced
comprehensiveChars(validator, str) ==
  LET chars == ArrayFrom(str)
  IN  [ i \in DOMAIN chars |->
          IF validate(validator, join(<< chars[i] >>))
            THEN chars[i]
            ELSE substituteOrFirst(chars[i]) ]

\* the indices (from 1) of the invalid code units
invalidCharIndices(validator, str) ==
  { i \in DOMAIN str : ~validate(validator, << str[i] >>) }

Min(S) == CHOOSE x \in S : \A y \in S : x <= y

\* the characters after index are replaced where they are invalid
fixRest(validator, chars, index) ==
  [ i \in DOMAIN chars |->
      IF i > index /\ ~validate(validator, join(<< chars[i] >>))
        THEN substituteOrFirst(chars[i])
        ELSE chars[i] ]

\* the characters before index are replaced where they are invalid
baseForSecondFixChars(validator, str, index) ==
  LET chars == ArrayFrom(str)
  IN  [ i \in DOMAIN chars |->
          IF i < index /\ ~validate(validator, join(<< chars[i] >>))
            THEN substituteOrFirst(chars[i])
            ELSE chars[i] ]

\* for (const validChar of VALID_CHARS) of main.js from the k-th character
\* on: patterns[k] is the pattern built with VALID_CHARS[k]
RECURSIVE focusedLoop(_, _, _, _, _, _)
focusedLoop(validator, suggestions, maxSuggestions, patterns, common, k) ==
  IF k > Len(VALID_CHARS) \/ Len(suggestions) >= maxSuggestions
    THEN suggestions
    ELSE IF common = VALID_CHARS[k]
      THEN focusedLoop(validator, suggestions, maxSuggestions, patterns,
                       common, k + 1)
      ELSE focusedLoop(validator,
                       addSuggestion(validator, suggestions, maxSuggestions,
                                     patterns[k]),
                       maxSuggestions, patterns, common, k + 1)

\* the same loop of test_suggestions.js: the common substitute is skipped
\* only if its pattern is among the suggestions
RECURSIVE focusedLoopTest(_, _, _, _, _, _)
focusedLoopTest(validator, suggestions, maxSuggestions, patterns, common, k) ==
  IF k > Len(VALID_CHARS) \/ Len(suggestions) >= maxSuggestions
    THEN suggestions
    ELSE IF common = VALID_CHARS[k] /\ patterns[k] \in Range(suggestions)
      THEN focusedLoopTest(validator, suggestions, maxSuggestions, patterns,
                           common, k + 1)
      ELSE focusedLoopTest(validator,
                           addSuggestion(validator, suggestions,
                                         maxSuggestions, patterns[k]),
                           maxSuggestions, patterns, common, k + 1)

\* generateSuggestions of main.js
generateSuggestions(validator, userInput, maxSuggestions) ==
  LET lowerUserInput == toLowerCase(userInput)
      invalid == invalidCharIndices(validator, lowerUserInput)
      s1 == addSuggestion(validator, << >>, maxSuggestions,
                          join(comprehensiveChars(validator, lowerUserInput)))
      s2 == IF invalid # {}
              THEN
                LET firstInvalidIndex == Min(invalid)
                    common == substitute(lowerUserInput[firstInvalidIndex])
                    tempChars == ArrayFrom(lowerUserInput)
                    a == IF common # ""
                           THEN addSuggestion(validator, s1, maxSuggestions,
                                  join(setAt(tempChars, firstInvalidIndex,
                                             common)))
                           ELSE s1
                    patterns == [ k \in DOMAIN VALID_CHARS |->
                                    join(setAt(tempChars, firstInvalidIndex,
                                               VALID_CHARS[k])) ]
                IN  focusedLoop(validator, a, maxSuggestions, patterns,
                                common, 1)
              ELSE s1
      s3 == IF Cardinality(invalid) > 1 /\ Len(s2) < maxSuggestions
              THEN
                LET secondInvalidIndex == Min(invalid \ {Min(invalid)})
                    common == substitute(lowerUserInput[secondInvalidIndex])
                    base == baseForSecondFixChars(validator, lowerUserInput,
                                                  secondInvalidIndex)
                    a == IF common # ""
                           THEN addSuggestion(validator, s2, maxSuggestions,
                                  join(setAt(base, secondInvalidIndex, common)))
                           ELSE s2
                    patterns == [ k \in DOMAIN VALID_CHARS |->
                                    join(fixRest(validator,
                                      setAt(base, secondInvalidIndex,
                                            VALID_CHARS[k]),
                                      secondInvalidIndex)) ]
                IN  focusedLoop(validator, a, maxSuggestions, patterns,
                                common, 1)
              ELSE s2
  IN  s3

\* generateSuggestions of test_suggestions.js
generateSuggestionsTest(validator, userInput, maxSuggestions) ==
  LET lowerUserInput == toLowerCase(userInput)
      invalid == invalidCharIndices(validator, lowerUserInput)
      s1 == addSuggestion(validator, << >>, maxSuggestions,
                          join(comprehensiveChars(validator, lowerUserInput)))
      s2 == IF invalid # {}
              THEN
                LET firstInvalidIndex == Min(invalid)
                    common == substitute(lowerUserInput[firstInvalidIndex])
                    tempCharsBase == ArrayFrom(lowerUserInput)
                    a == IF common # ""
                           THEN addSuggestion(validator, s1, maxSuggestions,
                                  join(fixRest(validator,
                                    setAt(tempCharsBase, firstInvalidIndex,
                                          common),
                                    firstInvalidIndex)))
                           ELSE s1
                    patterns == [ k \in DOMAIN VALID_CHARS |->
                                    join(fixRest(validator,
                                      setAt(tempCharsBase, firstInvalidIndex,
                                            VALID_CHARS[k]),
                                      firstInvalidIndex)) ]
                IN  focusedLoopTest(validator, a, maxSuggestions, patterns,
                                    common, 1)
              ELSE s1
      s3 == IF Cardinality(invalid) > 1 /\ Len(s2) < maxSuggestions
              THEN
                LET secondInvalidIndex == Min(invalid \ {Min(invalid)})
                    common == substitute(lowerUserInput[secondInvalidIndex])
                    base == baseForSecondFixChars(validator, lowerUserInput,
                                                  secondInvalidIndex)
                    a == IF common # ""
                           THEN addSuggestion(validator, s2, maxSuggestions,
                                  join(fixRest(validator,
                                    setAt(base, secondInvalidIndex, common),
                                    secondInvalidIndex)))
                           ELSE s2
                    patterns == [ k \in DOMAIN VALID_CHARS |->
                                    join(fixRest(validator,
                                      setAt(base, secondInvalidIndex,
                                            VALID_CHARS[k]),
                                      secondInvalidIndex)) ]
                IN  focusedLoopTest(validator, a, maxSuggestions, patterns,
                                    common, 1)
              ELSE s2
  IN  s3

\* a valid letter, letters with a common substitute (one in upper case), a
\* character without one, the digit of the separator
SuggestChars == {"q", "o", "i", "B", "@", "1"}

\* the texts given to generateSuggestions: over SuggestChars and the
\* character outside the basic plane, without lone surrogates
SuggestInputs ==
  { str \in Strings(SuggestChars \cup {Surrogates.high, Surrogates.low},
                    MaxStrLen) :
      \A i \in DOMAIN ArrayFrom(str) :
        ArrayFrom(str)[i] \notin {Surrogates.high, Surrogates.low} }

\* the limits asked for: none, few, the default, more than there are
\* characters in the table
SuggestLimits == {0, 1, 2, DefaultSuggestions, Len(VALID_CHARS) + 1}

InitSuggest ==
  /\ hardwareConcurrency = 0
  /\ InitPage
  /\ InitWorkers
  /\ unit \in { [op |-> "suggest", validator |-> v, userInput |-> str,
                  maxSuggestions |-> n, called |-> {},
                  main |-> << >>, test |-> << >>] :
                v \in Validators, str \in SuggestInputs,
                n \in SuggestLimits }

\* generateSuggestions of main.js is called
SuggestMain ==
  /\ unit.op = "suggest"
  /\ "main" \notin unit.called
  /\ unit' = [unit EXCEPT
                !.called = @ \cup {"main"},
                !.main = generateSuggestions(unit.validator, unit.userInput,
                                             unit.maxSuggestions)]
  /\ UNCHANGED << pageVars, workerVars >>

\* generateSuggestions of test_suggestions.js is called
SuggestTest ==
  /\ unit.op = "suggest"
  /\ "test" \notin unit.called
  /\ unit' = [unit EXCEPT
                !.called = @ \cup {"test"},
                !.test = generateSuggestionsTest(unit.validator,
                           unit.userInput, unit.maxSuggestions)]
  /\ UNCHANGED << pageVars, workerVars >>

NextSuggest == SuggestMain \/ SuggestTest

SpecSuggest == InitSuggest /\ [][NextSuggest]_vars

(***************************************************************************)
(* The derivation of one candidate after another: derive_address as it is  *)
(* listed with the repository, called by the loop of                       *)
(* generate_vanity_keypair_with_position.  The numbers are scaled down;    *)
(* the left half of an HMAC output is any number that 32 bytes hold.       *)
(***************************************************************************)
Words == 0 .. MaxWord

\* m/44'/118'/0'/0/0: which of the five indices are hardened
derivation_path == << TRUE, TRUE, TRUE, FALSE, FALSE >>

\* Scalar::from_repr: None (-1) for bytes that are not below the order
from_repr(bytes) == IF bytes < CurveOrder THEN bytes ELSE -1

\* Scalar::add
add(a, b) == (a + b) % CurveOrder

\* SigningKey::from_bytes: an error for the zero scalar
SigningKeyOk(scalar) == scalar # 0

InitDerive ==
  /\ hardwareConcurrency = 0
  /\ InitPage
  /\ InitWorkers
  /\ unit = [op |-> "derive", pc |-> "seed", candidate |-> 1, step |-> 0,
             scalar |-> 0, parent |-> 0, tweak |-> 0]

\* steps 2-4 of derive_address: the left half of the HMAC of the seed
\* becomes the master scalar
DeriveMaster(bytes) ==
  /\ unit.op = "derive"
  /\ unit.pc = "seed"
  /\ unit' = IF from_repr(bytes) = -1
               THEN [unit EXCEPT !.pc = "panic"]        \* unwrap of None
               ELSE [unit EXCEPT !.pc = "path", !.step = 0,
                                 !.scalar = from_repr(bytes)]
  /\ UNCHANGED << pageVars, workerVars >>

\* one pass of the loop over derivation_path; derived is the left half of
\* the HMAC output
DeriveStep(derived) ==
  /\ unit.op = "derive"
  /\ unit.pc = "path"
  /\ LET index == unit.step + 1
     IN  unit' =
           IF ~derivation_path[index] /\ ~SigningKeyOk(unit.scalar)
             THEN [unit EXCEPT !.pc = "error"]          \* from_bytes(..)?
             ELSE IF from_repr(derived) = -1
               THEN [unit EXCEPT !.pc = "panic", !.step = index,
                                 !.parent = unit.scalar, !.tweak = derived]
               ELSE [unit EXCEPT
                       !.step = index,
                       !.parent = unit.scalar,
                       !.tweak = derived,
                       !.scalar = add(unit.scalar, from_repr(derived)),
                       !.pc = IF index = Len(derivation_path)
                                THEN "address" ELSE "path"]
  /\ UNCHANGED << pageVars, workerVars >>

\* steps 7-9 of derive_address and the test of the loop that called it:
\* the address matches, or the next mnemonic is generated
DeriveAddress(matches) ==
  /\ unit.op = "derive"
  /\ unit.pc = "address"
  /\ unit' =
       IF ~SigningKeyOk(unit.scalar)
         THEN [unit EXCEPT !.pc = "error"]              \* derive_address(..)?
         ELSE IF matches \/ unit.candidate >= LargeBatch
           THEN [unit EXCEPT !.pc = "found"]
           ELSE [unit EXCEPT !.pc = "seed", !.candidate = @ + 1]
  /\ UNCHANGED << pageVars, workerVars >>

NextDerive ==
  \/ \E bytes \in Words : DeriveMaster(bytes)
  \/ \E derived \in Words : DeriveStep(derived)
  \/ \E matches \in BOOLEAN : DeriveAddress(matches)

SpecDerive == InitDerive /\ [][NextDerive]_vars

(***************************************************************************)
(* Properties.                                                             *)
(***************************************************************************)
Sessions == DOMAIN sessions

Live(s) == sessions[s].pc # "done"

PendingOf(s) == { id \in DOMAIN pendingMessages : pendingMessages[id].sess = s }

\* C1: once stopGeneration() has been called while generateVanityParallel of
\* a session is running, the coordinator of that session sends no request
\* after the round in flight has settled.
C1_StopEndsRounds ==
  [][ \A s \in Sessions :
        (sessions[s].tier = "parallel" /\ sessions[s].stopSeen
           /\ sessions[s].pc = "coordSleep")
        => sessions'[s].round = sessions[s].round ]_vars

\* C2: in the single-threaded batch loop and in the per-candidate loop, after
\* stopGeneration() has been called during a session, the loop of that
\* session runs no further batch.
C2_StopEndsBatches ==
  [][ \A s \in Sessions :
        (sessions[s].tier \in {"single", "fallback"} /\ sessions[s].stopSeen
           /\ Live(s))
        => sessions'[s].batches = sessions[s].batches ]_vars

\* C3: showSuccess is invoked at most once in a session, a session whose
\* match has been reported has ended, and a session that has ended runs no
\* further batch and sends no further round.
C3_FoundIsTerminal ==
  /\ [] (\A s \in Sessions :
           /\ sessions[s].successes <= 1
           /\ (sessions[s].successes = 1 \/ sessions[s].result.found)
                => (~Live(s) /\ PendingOf(s) = {}))
  /\ [][ \A s \in Sessions :
           ~Live(s) => /\ sessions'[s].batches = sessions[s].batches
                       /\ sessions'[s].round = sessions[s].round
                       /\ sessions'[s].successes = sessions[s].successes ]_vars

C3_Witness ==
  \E s \in Sessions :
    /\ sessions[s].successes = 1
    /\ ~Live(s)
    /\ sessions[s].batches + sessions[s].round >= 2

\* C4: a session sends the requests of a new round only when no request of
\* an earlier round of that session is still unsettled.
C4_RoundBarrier ==
  [][ \A s \in Sessions :
        sessions'[s].round > sessions[s].round => PendingOf(s) = {} ]_vars

C4_Witness ==
  \E s \in Sessions :
    /\ sessions[s].round >= 2
    /\ Cardinality(PendingOf(s)) >= 2

\* C5: the attempt count the coordinator reports, in a progress callback and
\* in the result of a match, is the sum of the attempts figures of all the
\* responses the session has received.
C5_AttemptsSumResponses ==
  \A s \in Sessions :
    /\ sessions[s].pc = "coordSleep"
         => sessions[s].totalAttempts = sessions[s].received
    /\ sessions[s].result.found
         => sessions[s].result.attempts = sessions[s].received

\* C6: if every request of rounds 1..r of a session was answered, exactly
\* one of round r with VANITY_FOUND and all the others with
\* VANITY_BATCH_COMPLETE, the result is the keypair of that response with an
\* attempt count of at least r * batch_size.
C6_SingleWinner ==
  \A s \in Sessions :
    LET r == sessions[s].result
    IN  (r.found /\ Cardinality(r.foundIds) = 1
           /\ sessions[s].errors = 0 /\ sessions[s].timeouts = 0)
        => /\ r.keypair = [sess |-> s, via |-> "worker",
                           n |-> CHOOSE id \in r.foundIds : TRUE]
           /\ r.attempts >= sessions[s].round * sessions[s].batchSize

C6_Witness ==
  \E s \in Sessions :
    /\ sessions[s].result.found
    /\ Cardinality(sessions[s].result.foundIds) = 1
    /\ sessions[s].errors = 0
    /\ sessions[s].timeouts = 0
    /\ sessions[s].round >= 2

\* C7: a session one of whose requests timed out or was answered with an
\* error leaves the parallel tier: once that round has settled it goes on in
\* the single-threaded batch loop.
C7_FailureFallsBack ==
  \A s \in Sessions :
    (sessions[s].errors + sessions[s].timeouts > 0
       /\ sessions[s].pc \notin {"round", "done"})
    => sessions[s].tier = "single"

\* C8: a request that timed out adds nothing to the attempt counter; when
\* the round has settled without a match the counter holds batch_size for
\* every request answered with VANITY_BATCH_COMPLETE and nothing else, and
\* the coordinator goes on to the next round in the parallel tier: a timeout
\* never ends the search.
C8_TimeoutExcluded ==
  \A s \in Sessions :
    /\ sessions[s].pc = "coordSleep"
         => /\ sessions[s].tier = "parallel"
            /\ sessions[s].totalAttempts = sessions[s].received
            /\ sessions[s].totalAttempts =
                 sessions[s].batchSize
                   * (sessions[s].round * workers
                        - sessions[s].errors - sessions[s].timeouts)
    /\ (sessions[s].timeouts > 0 /\ ~Live(s)) => sessions[s].result.found

C8_Witness ==
  \E s \in Sessions :
    /\ sessions[s].timeouts >= 1
    /\ sessions[s].round >= 2
    /\ sessions[s].pc = "round"
    /\ sessions[s].totalAttempts > 0

C10_InitFailureSingleThreaded ==
  initPc \in {"probe_error", "probe_timeout"}
    => /\ workers = 0
       /\ ~isAvailable(World)
       /\ messageId = 0
       /\ \A s \in Sessions : /\ sessions[s].tiers # << >>
                              /\ sessions[s].tiers[1] = "single"
                              /\ sessions[s].round = 0

C10_Witness ==
  /\ initPc \in {"probe_error", "probe_timeout"}
  /\ \E s \in Sessions : /\ sessions[s].tier = "single"
                         /\ sessions[s].batches >= 2

\* the order of the strategies
TierRank(tier) ==
  CASE tier = "none"     -> 0
    [] tier = "parallel" -> 1
    [] tier = "single"   -> 2
    [] tier = "fallback" -> 3

\* C11: the strategies a session has run in are, in order, a part of the
\* chain parallel, single-threaded batch, per-candidate that skips no
\* strategy once it has started: the session leaves the coordinator only for
\* the batch loop, the batch loop only for the per-candidate loop, and never
\* returns to a strategy it has left.
C11_TiersOnlyDescend ==
  /\ [] (\A s \in Sessions :
           /\ sessions[s].tiers \in
                { << "parallel" >>, << "parallel", "single" >>,
                  << "parallel", "single", "fallback" >>,
                  << "single" >>, << "single", "fallback" >> }
           /\ sessions[s].tier = sessions[s].tiers[Len(sessions[s].tiers)])
  /\ [][ \A s \in Sessions :
           TierRank(sessions'[s].tier) >= TierRank(sessions[s].tier) ]_vars

C11_Witness ==
  \E s \in Sessions :
    /\ sessions[s].tiers = << "parallel", "single", "fallback" >>
    /\ sessions[s].batches >= 2

\* C14: a round in which a worker answered VANITY_FOUND never ends without
\* a result, and the result of generateVanityParallel is one keypair, the one
\* carried by a VANITY_FOUND response to a request of the round that has
\* just settled.
C14_WinnerIsOfTheRound ==
  \A s \in Sessions :
    /\ sessions[s].pc = "coordSleep"
         => FoundIds(sessions[s].workerPromises) = {}
    /\ sessions[s].result.found
         => /\ sessions[s].result.foundIds # {}
            /\ \E id \in sessions[s].result.foundIds :
                 sessions[s].result.keypair =
                   [sess |-> s, via |-> "worker", n |-> id]
            /\ \A id \in sessions[s].result.foundIds :
                 /\ id < messageId
                 /\ id >= messageId - workers
                      \/ \E t \in Sessions : t # s /\ sessions[t].round > 0

C14_Witness ==
  \E s \in Sessions :
    /\ sessions[s].result.found
    /\ Cardinality(sessions[s].result.foundIds) >= 2
    /\ sessions[s].round >= 2

\* C15: every response of a worker to a batch request, VANITY_FOUND as well
\* as VANITY_BATCH_COMPLETE, reports the batch size of the request as its
\* attempts, and every batch the single-threaded batch loop runs adds the
\* batch size to the attempt counter, whether it ends in a match or not.
C15_WholeBatchCounted ==
  [][ \A s \in DOMAIN sessions' :
        LET old  == IF s \in Sessions THEN sessions[s] ELSE sessions'[s]
            ran  == IF s \in Sessions THEN sessions[s].batches ELSE 0
            base == IF s \in Sessions THEN attempts ELSE 0
        IN  /\ sessions'[s].received # old.received
                 => sessions'[s].received = old.received + sessions'[s].batchSize
            /\ (sessions'[s].batches # ran /\ sessions'[s].tier = "single")
                 => /\ sessions'[s].batches = ran + 1
                    /\ attempts' = base + sessions'[s].batchSize ]_vars

C15_Witness ==
  \E s \in Sessions :
    /\ sessions[s].result.found
    /\ sessions[s].received >= 2 * sessions[s].batchSize
    /\ sessions[s].received = sessions[s].round * workers * sessions[s].batchSize

\* C18: a task of the page runs at most one batch of a session on the main
\* thread; after a batch without a match the session waits for a timer, and
\* while it waits the page can handle a stop request.
C18_PauseAfterEveryBatch ==
  /\ [][ \A s \in DOMAIN sessions' :
           LET ran == IF s \in Sessions THEN sessions[s].batches ELSE 0
           IN  /\ sessions'[s].batches <= ran + 1
               /\ (sessions'[s].batches = ran + 1 /\ sessions'[s].pc # "done")
                    => sessions'[s].pc \in {"singleSleep", "fallbackSleep"} ]_vars
  /\ [] (\A s \in Sessions :
           sessions[s].pc \in {"singleSleep", "fallbackSleep"}
             => ENABLED Escape)

C18_Witness ==
  \E s \in Sessions :
    /\ sessions[s].pc = "singleSleep"
    /\ sessions[s].batches >= 2
    /\ ~sessions[s].stopSeen

\* C12: for every string the WASM validator, the table VALID_CHARS of
\* main.js and the validator of the test give the same verdict: true iff
\* every character, lower-cased, is one of the 32 symbols of the address
\* alphabet.
C12_ValidatorsDecideAlphabet ==
  (unit.op = "validate" /\ unit.done)
    => /\ unit.wasm = (\A i \in DOMAIN unit.S :
                         toLowerChar(unit.S[i]) \in AddressAlphabet)
       /\ unit.table = unit.wasm
       /\ unit.mock = unit.wasm

\* C13: for an address A and a target T with 0 < len(T) <= len(A), the
\* per-candidate loop decides, without regard to case: Prefix iff A is
\* 'mantra1' followed by T followed by anything, Suffix iff A is anything
\* followed by T, Anywhere iff A is anything, T, anything.
C13_MatchIsStringPrimitive ==
  (unit.op = "match" /\ unit.done /\ Len(unit.T) <= Len(unit.address))
    => LET a == toLowerCase(unit.address)
           t == toLowerCase(unit.T)
           n == Len(a)
       IN  unit.isMatch =
             CASE unit.position = "prefix" ->
                    \E k \in 0 .. n : a = Mantra1 \o t \o SubSeq(a, k + 1, n)
               [] unit.position = "suffix" ->
                    \E k \in 0 .. n : a = SubSeq(a, 1, k) \o t
               [] unit.position = "anywhere" ->
                    \E j \in 0 .. n, k \in 0 .. n :
                      a = SubSeq(a, 1, j) \o t \o SubSeq(a, k + 1, n)

C13_Witness ==
  /\ unit.op = "match"
  /\ unit.done
  /\ unit.isMatch
  /\ unit.position = "prefix"
  /\ unit.address # toLowerCase(unit.address)
  /\ unit.T # toLowerCase(unit.T)

\* C19: after a successful init() the pool holds the hardware concurrency
\* reported (4 when none is reported) less 2 workers, and 1 worker when that
\* is less than 1.
C19_WorkerCount ==
  initPc = "ready"
    => LET cores == IF hardwareConcurrency = 0 THEN 4 ELSE hardwareConcurrency
       IN  /\ isInitialized
           /\ workers >= 1
           /\ cores - 2 >= 1 => workers = cores - 2
           /\ cores - 2 < 1 => workers = 1

C19_Witness ==
  /\ initPc = "ready"
  /\ hardwareConcurrency = 1
  /\ workers = 1

\* C20: a batch derives at most as many candidates as the batch size of the
\* request (the recommended size when the request has none); every
\* iteration brings it nearer to that number or ends it; a batch that ends
\* without a result has derived exactly that many candidates, none of which
\* matches; a batch that ends with a result returns the first candidate that
\* matches and derives none after it.
C20_BatchBounded ==
  /\ [] ((unit.op = "batch" /\ unit.pc # "call")
          => LET B == IF unit.batchSize # 0
                        THEN unit.batchSize
                        ELSE get_optimal_batch_size(Len(unit.target))
             IN  /\ unit.i <= B
                 /\ (unit.pc = "done" /\ unit.result = 0)
                      => /\ unit.i = B
                         /\ \A k \in 1 .. B : ~unit.matches[k]
                 /\ (unit.pc = "done" /\ unit.result # 0)
                      => /\ unit.i = unit.result
                         /\ unit.matches[unit.result]
                         /\ \A k \in 1 .. (unit.result - 1) : ~unit.matches[k])
  /\ [][ (unit.op = "batch" /\ unit.pc = "loop")
          => \/ unit'.pc = "done"
             \/ unit'.batch_size - unit'.i < unit.batch_size - unit.i ]_vars

C20_Witness ==
  /\ unit.op = "batch"
  /\ unit.pc = "done"
  /\ unit.result = 0
  /\ unit.batchSize = SmallBatch
  /\ unit.matches[SmallBatch + 1]

\* the requests posted to worker w that it has not taken up yet
Queued(w) == IF w \in DOMAIN inbox THEN Range(inbox[w]) ELSE {}

\* the requests worker w has taken up and not answered yet
Held(w) ==
  Range(handlers[w]) \cup (IF busy[w] = NoMessage THEN {} ELSE {busy[w]})

\* C16: every request a worker receives is answered with exactly one
\* response, which carries the id of the request: at any moment the requests
\* a worker has received are those it still holds plus as many as it has
\* posted responses; a request leaves the worker only in a step that posts
\* one response with its id, and no response is posted otherwise; the
\* response to a batch request is VANITY_FOUND with a keypair,
\* VANITY_BATCH_COMPLETE without one or ERROR, the response to a PING is
\* PONG (ERROR if initialisation throws), the response to any other type is
\* ERROR; and the page settles with it no request but the pending one of
\* that id.
C16_OneResponsePerRequest ==
  /\ [] (\A w \in WorkerIds :
           served[w].received = served[w].posted + Cardinality(Held(w)))
  /\ [][ \A w \in WorkerIds :
           LET gone == (Queued(w) \cup Held(w)) \ (Queued(w)' \cup Held(w)')
           IN  /\ Cardinality(gone) <= 1
               /\ served'[w].posted = served[w].posted + Cardinality(gone)
               /\ \A msg \in gone :
                    LET response == outbox'[w]
                    IN  /\ response.id = msg.id
                        /\ CASE msg.type = "GENERATE_VANITY_BATCH" ->
                                  /\ response.type \in {"VANITY_FOUND",
                                        "VANITY_BATCH_COMPLETE", "ERROR"}
                                  /\ (response.type = "VANITY_FOUND")
                                        <=> (response.data.keypair # NoKeypair)
                             [] msg.type = "PING" ->
                                  /\ response.type \in {"PONG", "ERROR"}
                                  /\ response.data.keypair = NoKeypair
                             [] OTHER ->
                                  /\ response.type = "ERROR"
                                  /\ response.data.keypair = NoKeypair
                        /\ (DOMAIN pendingMessages) \ (DOMAIN pendingMessages')
                             \subseteq {msg.id}
                        /\ \A s \in DOMAIN sessions :
                             \A i \in DOMAIN sessions[s].workerPromises :
                               (/\ i \in DOMAIN sessions'[s].workerPromises
                                /\ sessions'[s].workerPromises[i]
                                     # sessions[s].workerPromises[i])
                                 => /\ sessions[s].workerPromises[i].id = msg.id
                                    /\ sessions'[s].workerPromises[i].id = msg.id
         ]_vars

\* a worker has answered a PING or an unknown request and then a batch
\* request with a keypair, which has reached the promise of that request
C16_Witness ==
  \E w \in WorkerIds, s \in DOMAIN sessions :
    /\ served[w].received >= 2
    /\ served[w].received = served[w].posted
    /\ probes > 0
    /\ outbox[w].type = "VANITY_FOUND"
    /\ \E p \in Range(sessions[s].workerPromises) :
         /\ p.id = outbox[w].id
         /\ p.state = "fulfilled"
         /\ p.keypair = outbox[w].data.keypair

\* C17: within one worker batches run strictly one after the other: a
\* batch starts only when no batch is running and every request the worker
\* has taken beyond its initialisation has its response posted, and while a
\* batch is running the next thing the worker does is to post its response.
C17_BatchesSequential ==
  [][ \A w \in WorkerIds :
        /\ (busy'[w] # NoMessage /\ busy'[w] # busy[w])
             => /\ busy[w] = NoMessage
                /\ served[w].received = served[w].posted + Len(handlers[w])
        /\ (busy[w] # NoMessage
              /\ << handlers[w], busy[w], served[w] >>
                   # << handlers'[w], busy'[w], served'[w] >>)
             => /\ busy'[w] = NoMessage
                /\ handlers'[w] = handlers[w]
                /\ served'[w] = Posted(served[w])
                /\ outbox'[w].id = busy[w].id
    ]_vars

\* a worker has posted the response of a batch and runs the batch of a
\* request that arrived before the one it has answered
C17_Witness ==
  \E w \in WorkerIds :
    /\ busy[w] # NoMessage
    /\ outbox[w].type = "VANITY_BATCH_COMPLETE"
    /\ busy[w].id < outbox[w].id

\* the call of main.js's generateSuggestions has returned
SuggestedMain == unit.op = "suggest" /\ "main" \in unit.called

\* the call of the test's generateSuggestions has returned
SuggestedTest == unit.op = "suggest" /\ "test" \in unit.called

\* the characters of the input, in lower case
CharsOfInput == ArrayFrom(toLowerCase(unit.userInput))

\* the invalid characters of the input, as the validator in use sees them
InvalidOfInput ==
  { i \in DOMAIN CharsOfInput :
      ~validate(unit.validator, join(<< CharsOfInput[i] >>)) }

\* C21: for every input, every limit and either validator, the validator
\* in use accepts every suggestion that generateSuggestions returns (the
\* function of main.js and the copy the test runs).
C21_SuggestionsValid ==
  /\ SuggestedMain
       => \A p \in Range(unit.main) : validate(unit.validator, p)
  /\ SuggestedTest
       => \A p \in Range(unit.test) : validate(unit.validator, p)

\* suggestions were returned for an input with two invalid characters, for
\* which main.js builds patterns that keep the second one
C21_Witness ==
  /\ SuggestedMain
  /\ Cardinality(InvalidOfInput) >= 2
  /\ Len(unit.main) = DefaultSuggestions
  /\ ~validate(unit.validator,
               [toLowerCase(unit.userInput) EXCEPT
                  ![Min(InvalidOfInput)] = VALID_CHARS[1]])

\* C22: generateSuggestions returns no suggestion for an input that the
\* validator accepts and none for the empty input.
C22_NoneForValidOrEmpty ==
  LET nothingToSuggest == \/ unit.userInput = << >>
                          \/ validate(unit.validator, unit.userInput)
  IN  /\ (SuggestedMain /\ nothingToSuggest) => unit.main = << >>
      /\ (SuggestedTest /\ nothingToSuggest) => unit.test = << >>

\* C23: generateSuggestions returns at most maxSuggestions patterns, none
\* of them twice, and exactly maxSuggestions for an input with two or more
\* invalid characters.
C23_LimitRespected ==
  SuggestedMain
    => /\ Len(unit.main) <= unit.maxSuggestions
       /\ \A i \in DOMAIN unit.main : \A j \in DOMAIN unit.main :
            unit.main[i] = unit.main[j] => i = j
       /\ Cardinality(InvalidOfInput) >= 2
            => Len(unit.main) = unit.maxSuggestions

\* C24: for an input with an invalid character and a limit of one or more,
\* the suggestions include the input (in lower case) with every invalid
\* character replaced by its common substitute or, without one, by "q".
C24_ComprehensiveIncluded ==
  (SuggestedMain /\ InvalidOfInput # {} /\ unit.maxSuggestions >= 1)
    => LET lower == CharsOfInput
           comprehensive ==
             [ i \in DOMAIN lower |->
                 IF i \in InvalidOfInput
                   THEN IF lower[i] = "o" THEN "0"
                        ELSE IF lower[i] = "i" THEN "1"
                        ELSE IF lower[i] = "b" THEN "8"
                        ELSE "q"
                   ELSE lower[i] ]
       IN  comprehensive \in Range(unit.main)

\* C25: with the same validator, the same input and the same limit, the
\* generateSuggestions of the test returns the list that the one of
\* main.js returns.
C25_TestIsCopy ==
  (SuggestedMain /\ SuggestedTest) => unit.test = unit.main

\* C26: at each step of the path the new private scalar is (current
\* scalar + tweak) mod n and lies in 1 .. n-1; a tweak of n or more, or a
\* result of 0, discards the candidate, and the search goes on with fresh
\* entropy: the derivation neither fails nor goes on with that scalar.
C26_ScalarAdditionInRange ==
  /\ [] ((unit.op = "derive" /\ unit.step >= 1)
          => /\ unit.pc \notin {"panic", "error"}
             /\ unit.scalar = (unit.parent + unit.tweak) % CurveOrder
             /\ unit.scalar \in 1 .. (CurveOrder - 1))
  /\ [][ (unit.op = "derive" /\ unit.pc = "path" /\ unit'.step # unit.step
           /\ (unit'.tweak >= CurveOrder
                  \/ (unit.scalar + unit'.tweak) % CurveOrder = 0))
          => (unit'.pc = "seed" /\ unit'.candidate = unit.candidate + 1)
       ]_vars

\* the session started last
CurrentSession == Cardinality(Sessions)

\* C27: showSuccess displays a keypair only while a search is running and
\* only if the keypair was found by the session started last, hence for its
\* target and position: the result of an earlier session is never displayed
\* once a new session has been started.
C27_DisplayedIsOfCurrentSession ==
  [][ (displayed' # displayed /\ displayed' # NoKeypair)
        => /\ isRunning \/ Sessions' # Sessions
           /\ displayed'.sess = CurrentSession'
           /\ sessions'[displayed'.sess].target
                = sessions'[CurrentSession'].target
           /\ sessions'[displayed'.sess].position
                = sessions'[CurrentSession'].position ]_vars

\* C28: at most one search loop is active at any time: a batch is run or a
\* round is sent only by the session started last, and a session that ends
\* while a later session is running leaves isRunning as it is.
C28_OneLoopActive ==
  [][ \A s \in Sessions :
        /\ (sessions'[s].batches # sessions[s].batches
              \/ sessions'[s].round # sessions[s].round)
             => s = CurrentSession
        /\ (Live(s) /\ sessions'[s].pc = "done" /\ s # CurrentSession
              /\ isRunning)
             => isRunning' ]_vars

\* C29: a match found by a worker is never lost: when a worker posts
\* VANITY_FOUND in answer to a request of the search that is running, the
\* promise of that request is fulfilled with it, or generateVanityParallel
\* has returned the keypair of the round.
C29_MatchNeverLost ==
  [][ \A w \in WorkerIds :
        (/\ busy[w] # NoMessage
         /\ busy'[w] = NoMessage
         /\ outbox'[w].type = "VANITY_FOUND"
         /\ isRunning
         /\ busy[w].sess = CurrentSession
         /\ Live(busy[w].sess)
         /\ ~sessions[busy[w].sess].stopSeen)
        => \/ sessions'[busy[w].sess].result.found
           \/ \E p \in Range(sessions'[busy[w].sess].workerPromises) :
                /\ p.id = busy[w].id
                /\ p.state = "fulfilled"
                /\ p.keypair = outbox'[w].data.keypair ]_vars

\* the promise that sendToWorker returned for request id is not settled
Unsettled(id) ==
  \E s \in Sessions :
    \E p \in Range(sessions[s].workerPromises) :
      p.id = id /\ p.state = "pending"

\* C30: every promise returned by sendToWorker is eventually settled, by
\* the response of the worker or by the 30 s timer, also when terminate()
\* is called while the request is pending.
C30_EveryPromiseSettled ==
  \A id \in MessageIds : Unsettled(id) ~> ~Unsettled(id)

\* C31: generateVanityParallel never runs a round with an empty worker
\* pool: once terminate() has emptied the pool, the coordinator of a search
\* starts no further round (the call returns or throws instead).
C31_NoEmptyRound ==
  [][ \A s \in Sessions :
        sessions'[s].round # sessions[s].round => workers > 0 ]_vars

\* C32: 'Generation stopped by user' is shown only for a search that was
\* cancelled: when a search ends with a match the status it leaves is the
\* success message, and when it ends with an error the status it leaves is
\* the 'Generation failed' message.
C32_StoppedOnlyOnCancel ==
  [][ \A s \in SessionIds :
        \* the handleGenerate of session s returns in this step
        (/\ s \in DOMAIN sessions'
         /\ sessions'[s].pc = "done"
         /\ s \in Sessions => Live(s))
        => /\ sessions'[s].outcome = "found"  => status' = "success"
           /\ sessions'[s].outcome = "failed" => status' = "failed" ]_vars

\* the requests that wait at the workers, as (worker, place in its queue)
InboxRequests ==
  { x \in WorkerIds \X (1 .. MaxMessages) : x[2] <= Len(inbox[x[1]]) }

\* the promises sendToWorker has returned for a request, as (session, index)
RequestPromises ==
  { x \in SessionIds \X (1 .. Cardinality(WorkerIds)) :
      /\ x[1] \in Sessions
      /\ x[2] \in DOMAIN sessions[x[1]].workerPromises
      /\ sessions[x[1]].workerPromises[x[2]].id >= 0 }

\* C33: message ids are unique across workers and rounds, and the promise
\* of a request is settled at most once, by the response or the timer of
\* its own id while that id is pending: a response that arrives after the
\* timer of its request, and a timer that fires after the response, change
\* no promise.
C33_IdsUniqueSettledOnce ==
  /\ [] /\ DOMAIN pendingMessages \subseteq 0 .. (messageId - 1)
        /\ \A x \in InboxRequests, y \in InboxRequests :
             inbox[x[1]][x[2]].id = inbox[y[1]][y[2]].id => x = y
        /\ \A x \in InboxRequests : inbox[x[1]][x[2]].id < messageId
        /\ \A x \in RequestPromises, y \in RequestPromises :
             sessions[x[1]].workerPromises[x[2]].id
               = sessions[y[1]].workerPromises[y[2]].id => x = y
        /\ \A x \in RequestPromises :
             sessions[x[1]].workerPromises[x[2]].id < messageId
  /\ [][ /\ \A id \in DOMAIN pendingMessages' \ DOMAIN pendingMessages :
               id >= messageId /\ id < messageId'
         /\ \A x \in RequestPromises :
              LET s == x[1]
                  p == sessions[s].workerPromises[x[2]]
              IN  (/\ sessions'[s].round = sessions[s].round
                   /\ x[2] \in DOMAIN sessions'[s].workerPromises)
                  => LET q == sessions'[s].workerPromises[x[2]]
                     IN  /\ p.state # "pending" => q = p
                         /\ (p.state = "pending" /\ q.state # "pending")
                              => /\ q.id = p.id
                                 /\ p.id \in DOMAIN pendingMessages
                                 /\ p.id \notin DOMAIN pendingMessages'
                         /\ (p.state = "pending" /\ q.state = "pending")
                              => q = p ]_vars

\* the timer of a request has rejected its promise and the response of the
\* worker has arrived after it, while another request of the round was
\* answered in time
C33_Witness ==
  \E x \in RequestPromises, y \in RequestPromises :
    LET p == sessions[x[1]].workerPromises[x[2]]
        q == sessions[y[1]].workerPromises[y[2]]
    IN  /\ x[1] = y[1]
        /\ p.state = "rejected" /\ p.reason = "timeout"
        /\ \A z \in InboxRequests : inbox[z[1]][z[2]].id # p.id
        /\ q.state = "fulfilled"

C35_AttemptsMonotone ==
  [][ IF Sessions' # Sessions
        THEN sessions'[CurrentSession'].batches = 0 => attempts' = 0
        ELSE isRunning => attempts' >= attempts ]_vars

\* C36: every suggestion generateSuggestions returns has as many
\* characters as the input and the character of the lower-cased input at
\* every place where that character is valid: only invalid characters are
\* replaced.
C36_OnlyInvalidReplaced ==
  LET keeps(p) ==
        /\ Len(ArrayFrom(p)) = Len(CharsOfInput)
        /\ \A i \in DOMAIN CharsOfInput :
             i \notin InvalidOfInput => ArrayFrom(p)[i] = CharsOfInput[i]
  IN  /\ SuggestedMain => \A p \in Range(unit.main) : keeps(p)
      /\ SuggestedTest => \A p \in Range(unit.test) : keeps(p)

=============================================================================
